---------------------------- MODULE Spec2Model ----------------------------
(***************************************************************************)
(* A model of DAT's recipe-to-pipeline compiler (dat/vistrails_interface): *)
(* the PipelineGenerator edit log, delete_linked, the variable and         *)
(* constant splicers, create_pipeline and update_pipeline.                 *)
(*                                                                         *)
(* A pipeline is [modules, connections]: modules maps a module id to       *)
(* [desc, functions], connections is a set of                              *)
(* [id, src, sport, dst, dport].  A vistrail is [versions, idScope].       *)
(***************************************************************************)
EXTENDS Integers, Sequences, FiniteSets, TLC

VARIABLES
    vistrail,         \* controller.vistrail: the version tree and its idScope
    current_version,  \* controller.current_version
    generator,        \* the PipelineGenerator of the call in progress / last call
    info,             \* the cell's PipelineInformation, or NoInfo
    last,             \* what the last call was given and what it returned
    manager,          \* the Manager singleton: observers and variable registry
    pc                \* position of the client that drives the calls

vars == <<vistrail, current_version, generator, info, last, manager, pc>>

(***************************************************************************)
(* Bounds of the model.                                                    *)
(***************************************************************************)
MaxModules == 3    \* modules of the pipelines delete_linked is explored on

\* sys.maxint, the default depth of delete_linked (32-bit build)
maxint == 2147483647

(***************************************************************************)
(* Small helpers.                                                          *)
(***************************************************************************)
Min(S) == CHOOSE x \in S : \A y \in S : x <= y

RECURSIVE SortedSeq(_)
\* the elements of a set of integers, ascending
SortedSeq(S) == IF S = {} THEN <<>> ELSE <<Min(S)>> \o SortedSeq(S \ {Min(S)})

RECURSIVE SortedConns(_)
\* a set of connections as a list, ascending by id
SortedConns(S) ==
    IF S = {} THEN <<>>
    ELSE LET c == CHOOSE x \in S : \A y \in S : x.id <= y.id
         IN <<c>> \o SortedConns(S \ {c})

Range(s) == {s[i] : i \in DOMAIN s}

EmptyFn == [x \in {} |-> x]

\* f with key k (re)bound to v
Put(f, k, v) == [x \in DOMAIN f \cup {k} |-> IF x = k THEN v ELSE f[x]]

\* f without the keys of K
Drop(f, K) == [x \in DOMAIN f \ K |-> f[x]]

\* Manager.__init__ (manager.py:19-27), what concerns the variables
Manager ==
    [variable_observers |-> {}, variables |-> EmptyFn, variables_reverse |-> EmptyFn]

\* "x = e" followed by the statements F(x): e is worked out once
Bind(e, F(_)) == CHOOSE v \in {F(x) : x \in {e}} : TRUE

(***************************************************************************)
(* Pipelines, modules, connections.                                        *)
(***************************************************************************)
EmptyPipeline == [modules |-> EmptyFn, connections |-> {}]

Module(desc, functions) == [desc |-> desc, functions |-> functions]

Connection(id, src, sport, dst, dport) ==
    [id |-> id, src |-> src, sport |-> sport, dst |-> dst, dport |-> dport]

\* get_function(module, function_name); None is ""
get_function(module, function_name) ==
    IF function_name \in DOMAIN module.functions
    THEN module.functions[function_name] ELSE ""

\* controller.current_pipeline
current_pipeline(controller) ==
    controller.vistrail.versions[controller.current_version].pipeline

\* controller.change_selected_version(version)
change_selected_version(controller, version) ==
    [controller EXCEPT !.current_version = version]

(***************************************************************************)
(* Staged operations of a PipelineGenerator.                               *)
(***************************************************************************)
NoConn == Connection(-1, -1, "", -1, "")
NoModule == Module("", EmptyFn)

Op(op, what, id, module, conn, port, value) ==
    [op |-> op, what |-> what, id |-> id, module |-> module, conn |-> conn,
     port |-> port, value |-> value]

AddModuleOp(id, module) == Op("add", "module", id, module, NoConn, "", "")
AddConnOp(conn) == Op("add", "connection", conn.id, NoModule, conn, "", "")
DeleteModuleOp(id) == Op("delete", "module", id, NoModule, NoConn, "", "")
DeleteConnOp(conn) == Op("delete", "connection", conn.id, NoModule, conn, "", "")
FunctionOp(id, port, value) == Op("function", "module", id, NoModule, NoConn, port, value)
MoveOp(id) == Op("move", "module", id, NoModule, NoConn, "", "")

(***************************************************************************)
(* Filters of delete_linked.  A filter is a predicate on modules or on     *)
(* connections; it is represented by the set it rejects.                   *)
(***************************************************************************)
Rejecting(S) == [rejected |-> S]
AlwaysTrue == Rejecting({})
Passes(filter, x) == x \notin filter.rejected

(***************************************************************************)
(* delete_linked (vistrails_interface.py:778-842).                         *)
(***************************************************************************)
\* module_connections.get(mod, []): the connections a module takes part in
module_connections(pipeline, mod) ==
    {c \in pipeline.connections : c.src = mod \/ c.dst = mod}

RECURSIVE dl_connection_loop(_, _, _, _, _)
\* "for connection in module_connections.get(module.id, [])" for one module;
\* st = [to_delete, new_open_list, visited_connections]
dl_connection_loop(conns, module, module_filter, connection_filter, st) ==
    IF conns = <<>> THEN st
    ELSE LET connection == Head(conns)
             considered == /\ connection \notin st.visited_connections
                           /\ Passes(connection_filter, connection)
             other_mod == IF connection.src = module
                          THEN connection.dst ELSE connection.src
             skipped == considered /\ other_mod \in st.to_delete
             taken == considered /\ ~skipped /\ Passes(module_filter, other_mod)
             st1 == IF taken
                    THEN [st EXCEPT !.to_delete = @ \cup {other_mod},
                                    !.new_open_list = Append(@, other_mod)]
                    ELSE st
             \* 'continue' leaves the loop body before visited_connections.add
             st2 == IF skipped THEN st1
                    ELSE [st1 EXCEPT !.visited_connections = @ \cup {connection}]
         IN dl_connection_loop(Tail(conns), module, module_filter,
                               connection_filter, st2)

RECURSIVE dl_module_loop(_, _, _, _, _)
\* "for module in open_list"
dl_module_loop(open_list, pipeline, module_filter, connection_filter, st) ==
    IF open_list = <<>> THEN st
    ELSE dl_module_loop(
             Tail(open_list), pipeline, module_filter, connection_filter,
             dl_connection_loop(
                 SortedConns(module_connections(pipeline, Head(open_list))),
                 Head(open_list), module_filter, connection_filter, st))

RECURSIVE dl_while(_, _, _, _, _, _, _)
\* "while depth > 0 and open_list"; the result is to_delete
dl_while(depth, open_list, pipeline, module_filter, connection_filter, to_delete, visited_connections) ==
    IF depth > 0 /\ open_list # <<>>
    THEN Bind(dl_module_loop(
                  open_list, pipeline, module_filter, connection_filter,
                  [to_delete |-> to_delete, new_open_list |-> <<>>,
                   visited_connections |-> visited_connections]),
              LAMBDA st :
                  dl_while(depth - 1, st.new_open_list, pipeline, module_filter,
                           connection_filter, st.to_delete,
                           st.visited_connections))
    ELSE to_delete

dl_to_delete_skipping_seeds(controller, modules, module_filter, connection_filter, depth) ==
    dl_while(depth, SortedSeq(modules), current_pipeline(controller),
             module_filter, connection_filter, {}, {})

dl_to_delete_ignoring_depth(controller, modules, module_filter, connection_filter, depth) ==
    dl_while(maxint, SortedSeq(modules), current_pipeline(controller),
             module_filter, connection_filter, modules, {})

\* lines 799-834: the set of modules to delete (modules is the set of seed ids)
dl_to_delete(controller, modules, module_filter, connection_filter, depth) ==
    dl_while(depth, SortedSeq(modules), current_pipeline(controller),
             module_filter, connection_filter, modules, {})

dl_conn_to_delete_filtered(controller, to_delete, connection_filter) ==
    {c \in UNION {module_connections(current_pipeline(controller), m) : m \in to_delete} :
        Passes(connection_filter, c)}

\* lines 836-838: every connection of a module to delete
dl_conn_to_delete(controller, to_delete, connection_filter) ==
    UNION {module_connections(current_pipeline(controller), m) : m \in to_delete}

\* delete_linked: [operations: the extended list, ret: the ids deleted].
\* The two sets are staged in ascending id order.
delete_linked(controller, modules, operations, module_filter, connection_filter, depth) ==
    Bind(dl_to_delete(controller, modules, module_filter, connection_filter, depth),
         LAMBDA to_delete :
             Bind(SortedConns(dl_conn_to_delete(controller, to_delete,
                                                connection_filter)),
                  LAMBDA conn_to_delete :
                      [operations |->
                           operations
                           \o [i \in 1..Len(conn_to_delete) |->
                                  DeleteConnOp(conn_to_delete[i])]
                           \o [i \in 1..Cardinality(to_delete) |->
                                  DeleteModuleOp(SortedSeq(to_delete)[i])],
                       ret |-> to_delete]))


(***************************************************************************)
(* The controller's idScope and version tree (VisTrails).                  *)
(***************************************************************************)
getNewId_not_advancing(vt, type) == [vistrail |-> vt, ret |-> vt.idScope[type]]

\* vistrail.idScope.getNewId(type): [vistrail, ret]
getNewId(vt, type) ==
    [vistrail |-> [vt EXCEPT !.idScope[type] = @ + 1], ret |-> vt.idScope[type]]

RECURSIVE perform_operations(_, _)
\* the pipeline that results from performing the operations of an action
perform_operations(pipeline, ops) ==
    IF ops = <<>> THEN pipeline
    ELSE LET o == Head(ops)
             next ==
                 CASE o.op = "add" /\ o.what = "module" ->
                          [pipeline EXCEPT !.modules = Put(@, o.id, o.module)]
                   [] o.op = "add" /\ o.what = "connection" ->
                          [pipeline EXCEPT !.connections = @ \cup {o.conn}]
                   [] o.op = "delete" /\ o.what = "module" ->
                          [pipeline EXCEPT !.modules = Drop(@, {o.id})]
                   [] o.op = "delete" /\ o.what = "connection" ->
                          [pipeline EXCEPT !.connections =
                               {c \in @ : c.id # o.id}]
                   [] o.op = "function" /\ o.id \in DOMAIN pipeline.modules ->
                          [pipeline EXCEPT !.modules[o.id].functions =
                               Put(@, o.port, o.value)]
                   [] OTHER -> pipeline
         IN perform_operations(next, Tail(ops))

(***************************************************************************)
(* PipelineGenerator (vistrails_interface.py:869-1035).                    *)
(***************************************************************************)
\* __init__
PipelineGenerator(controller) ==
    [operations |-> <<>>,
     all_modules |-> DOMAIN current_pipeline(controller).modules,
     all_connections |-> current_pipeline(controller).connections]

\* append_operations(operations)
append_operations(gen, operations) ==
    [operations |-> gen.operations \o operations,
     all_modules |-> gen.all_modules \cup
         {operations[i].id : i \in {j \in DOMAIN operations :
              operations[j].op = "add" /\ operations[j].what = "module"}},
     all_connections |-> gen.all_connections \cup
         {operations[i].conn : i \in {j \in DOMAIN operations :
              operations[j].op = "add" /\ operations[j].what = "connection"}}]

\* add_module(module)
add_module(gen, id, module) ==
    [gen EXCEPT !.operations = Append(@, AddModuleOp(id, module)),
                !.all_modules = @ \cup {id}]

\* copy_module(module): [controller, generator, ret: the id of the copy]
copy_module(controller, gen, module) ==
    LET n == getNewId(controller.vistrail, "module")
    IN [controller |-> [controller EXCEPT !.vistrail = n.vistrail],
        generator |-> add_module(gen, n.ret, module),
        ret |-> n.ret]

\* controller.create_module_from_descriptor(descriptor): [controller, ret]
create_module_from_descriptor(controller, desc) ==
    LET n == getNewId(controller.vistrail, "module")
    IN [controller |-> [controller EXCEPT !.vistrail = n.vistrail], ret |-> n.ret]

connect_modules_reversed(controller, gen, src_mod, src_port, dest_mod, dest_port) ==
    LET n == getNewId(controller.vistrail, "connection")
        new_conn == Connection(n.ret, dest_mod, dest_port, src_mod, src_port)
    IN [controller |-> [controller EXCEPT !.vistrail = n.vistrail],
        generator |-> [gen EXCEPT !.operations = Append(@, AddConnOp(new_conn)),
                                  !.all_connections = @ \cup {new_conn}],
        ret |-> n.ret]

\* connect_modules(src_mod, src_port, dest_mod, dest_port):
\* [controller, generator, ret: the id of the new connection]
connect_modules(controller, gen, src_mod, src_port, dest_mod, dest_port) ==
    LET n == getNewId(controller.vistrail, "connection")
        new_conn == Connection(n.ret, src_mod, src_port, dest_mod, dest_port)
    IN [controller |-> [controller EXCEPT !.vistrail = n.vistrail],
        generator |-> [gen EXCEPT !.operations = Append(@, AddConnOp(new_conn)),
                                  !.all_connections = @ \cup {new_conn}],
        ret |-> n.ret]

\* update_function(module, portname, values)
update_function(gen, module, portname, value) ==
    [gen EXCEPT !.operations = Append(@, FunctionOp(module, portname, value))]

gen_delete_linked_keeping_layout(controller, gen, modules, module_filter, connection_filter, depth) ==
    [gen EXCEPT !.operations =
         delete_linked(controller, modules, gen.operations, module_filter,
                       connection_filter, depth).operations]

\* PipelineGenerator.delete_linked(modules, **kwargs)
gen_delete_linked(controller, gen, modules, module_filter, connection_filter, depth) ==
    Bind(delete_linked(controller, modules, gen.operations, module_filter,
                       connection_filter, depth),
         LAMBDA r :
             [operations |-> r.operations,
              all_modules |-> gen.all_modules \ r.ret,
              all_connections |-> {c \in gen.all_connections :
                                      c.src \notin r.ret /\ c.dst \notin r.ret}])

\* PipelineGenerator.delete_modules(modules)
gen_delete_modules(controller, gen, modules) ==
    gen_delete_linked(controller, gen, modules, AlwaysTrue, AlwaysTrue, 0)

perform_action_two_commits(controller, gen) ==
    IF gen.all_modules = {}
    THEN [controller |-> controller, generator |-> gen, ret |-> -1,
          err |-> "ZeroDivisionError"]
    ELSE LET n1 == getNewId(controller.vistrail, "version")
             n2 == getNewId(n1.vistrail, "version")
             first == SubSeq(gen.operations, 1, Min({1, Len(gen.operations)}))
             rest == SubSeq(gen.operations, 2, Len(gen.operations))
             p1 == perform_operations(current_pipeline(controller), first)
         IN [controller |->
                 [vistrail |->
                      [n2.vistrail EXCEPT !.versions =
                           Put(Put(@, n1.ret,
                                   [parent |-> controller.current_version,
                                    pipeline |-> p1]),
                               n2.ret,
                               [parent |-> n1.ret,
                                pipeline |-> perform_operations(p1, rest)])],
                  current_version |-> n2.ret],
             generator |-> gen, ret |-> n2.ret, err |-> "ok"]

\* perform_action(): [controller, generator, ret: the new version, err].
\* The layout adds a move for every laid out module the pipeline already has;
\* averaging the positions divides by len(all_modules).
perform_action(controller, gen) ==
    IF gen.all_modules = {}
    THEN [controller |-> controller, generator |-> gen, ret |-> -1,
          err |-> "ZeroDivisionError"]
    ELSE Bind([pipeline |-> current_pipeline(controller),
               n |-> getNewId(controller.vistrail, "version")],
              LAMBDA at :
                  Bind(gen.operations
                       \o [i \in 1..Cardinality(gen.all_modules
                                                \cap DOMAIN at.pipeline.modules) |->
                              MoveOp(SortedSeq(gen.all_modules
                                               \cap DOMAIN at.pipeline.modules)[i])],
                       LAMBDA operations :
                           [controller |->
                                [vistrail |->
                                     [at.n.vistrail EXCEPT !.versions =
                                          Put(@, at.n.ret,
                                              [parent |-> controller.current_version,
                                               pipeline |-> perform_operations(
                                                   at.pipeline, operations)])],
                                 current_version |-> at.n.ret],
                            generator |-> [gen EXCEPT !.operations = operations],
                            ret |-> at.n.ret,
                            err |-> "ok"]))

(***************************************************************************)
(* Types, variables, recipes and plots.                                    *)
(***************************************************************************)
\* issubclass(a.module, b.module) over the module types of the model
issubclass(a, b) ==
    \/ a = b
    \/ b = "Module"
    \/ <<a, b>> \in {<<"String", "Constant">>}

\* find_modules_by_type(pipeline, [moduletype]), in module_list order
find_modules_by_type(pipeline, moduletype) ==
    SortedSeq({m \in DOMAIN pipeline.modules :
                  issubclass(pipeline.modules[m].desc, moduletype)})

\* the type of the loaded variables: A fits a data port, B needs a typecast
VariableType(name) == IF name = "A" THEN "Array" ELSE "Table"

\* RecipeParameterValue(variable=...) and RecipeParameterValue(constant=...)
VariableValue(name) == [type |-> "VARIABLE", variable |-> name, constant |-> ""]
ConstantValue(c) == [type |-> "CONSTANT", variable |-> "", constant |-> c]

Port(name, type, optional) == [name |-> name, type |-> type, optional |-> optional]

\* The plot 'Line': a data port wired to two inputs of the plot, an optional
\* constant port wired to one, and two optional ports, one for a variable and
\* one for a constant, whose InputPort modules are wired to nothing.
LinePorts ==
    <<Port("data", "Array", FALSE), Port("color", "String", TRUE),
      Port("aux", "Array", TRUE), Port("label", "String", TRUE)>>

LineSubworkflow ==
    [modules |->
         (1 :> Module("InputPort", [name |-> "data"]))
         @@ (2 :> Module("InputPort", [name |-> "color"]))
         @@ (3 :> Module("InputPort", [name |-> "aux"]))
         @@ (4 :> Module("Plotter", EmptyFn))
         @@ (5 :> Module("SpreadsheetCell", EmptyFn))
         @@ (6 :> Module("InputPort", [name |-> "label"])),
     connections |->
         {Connection(1, 1, "InternalPipe", 4, "data"),
          Connection(2, 1, "InternalPipe", 5, "title"),
          Connection(3, 2, "InternalPipe", 4, "color"),
          Connection(4, 4, "out", 5, "in")}]

\* The plot 'Bar': one data port wired to the plot, and no spreadsheet cell.
BarPorts == <<Port("data", "Array", FALSE)>>

BarSubworkflow ==
    [modules |->
         (1 :> Module("InputPort", [name |-> "data"]))
         @@ (2 :> Module("BarPlotter", EmptyFn)),
     connections |-> {Connection(1, 1, "InternalPipe", 2, "data")}]

\* Plots with the given numbers of spreadsheet cells (at most two) and of
\* cell locations, each location wired to the cell of its rank and holding
\* the place the template was drawn for.
CellSubworkflow(cells, locations) ==
    [modules |->
         [m \in {1, 2} \cup 3..2 + cells \cup 6..5 + locations |->
             IF m = 1 THEN Module("InputPort", [name |-> "data"])
             ELSE IF m = 2 THEN Module("BarPlotter", EmptyFn)
             ELSE IF m < 6 THEN Module("SpreadsheetCell", EmptyFn)
             ELSE Module("CellLocation", [Row |-> "9", Column |-> "9"])],
     connections |->
         {Connection(1, 1, "InternalPipe", 2, "data")}
         \cup {Connection(m - 1, 2, "out", m, "in") : m \in 3..2 + cells}
         \cup {Connection(m - 2, m, "self", m - 3, "Location") :
                  m \in {n \in 6..5 + locations : n - 3 <= 2 + cells}}]

Plots ==
    [Line |-> [name |-> "Line", subworkflow |-> LineSubworkflow, ports |-> LinePorts],
     Bar |-> [name |-> "Bar", subworkflow |-> BarSubworkflow, ports |-> BarPorts],
     Located |-> [name |-> "Located", subworkflow |-> CellSubworkflow(1, 1),
                  ports |-> BarPorts],
     Doubled |-> [name |-> "Doubled", subworkflow |-> CellSubworkflow(2, 2),
                  ports |-> BarPorts],
     Paired |-> [name |-> "Paired", subworkflow |-> CellSubworkflow(2, 0),
                 ports |-> BarPorts]]

\* name_to_port = {port.name: port for port in plot.ports}
name_to_port(plot) ==
    [n \in {plot.ports[i].name : i \in DOMAIN plot.ports} |->
        (CHOOSE q \in Range(plot.ports) : q.name = n)]

\* The typecast operation: one module between an InputPort and the OutputPort.
CastSubworkflow ==
    [modules |->
         (1 :> Module("InputPort", [name |-> "input"]))
         @@ (2 :> Module("Caster", EmptyFn))
         @@ (3 :> Module("OutputPort", [name |-> "value"])),
     connections |->
         {Connection(1, 1, "InternalPipe", 2, "in"),
          Connection(2, 2, "out", 3, "InternalPipe")}]

\* vistrail.getPipeline(tag)
getPipeline(controller, tag) ==
    controller.vistrail.versions[controller.vistrail.tags[tag]].pipeline

VarTag(name) == "dat-var-" \o name

(***************************************************************************)
(* Splicing variables and constants                                        *)
(* (vistrails_interface.py:1038-1151, 360-371, 412-477).                   *)
(***************************************************************************)
\* what a splicer returns: a list of connection ids, or (module, port_name)
ConnectionIds(ids) == [kind |-> "list", ids |-> ids, module |-> -1, port |-> ""]
OutputPair(module, port) == [kind |-> "tuple", ids |-> <<>>, module |-> module, port |-> port]

PlotPort(module, port) == [module |-> module, port |-> port]
\* plot_ports=None
None == <<PlotPort(-1, "None")>>

truthy_not_none(plot_ports) == plot_ports # None

\* "if plot_ports:"
truthy(plot_ports) == plot_ports # None /\ plot_ports # <<>>

Result(controller, gen, ret, err) ==
    [controller |-> controller, generator |-> gen, ret |-> ret, err |-> err]

RECURSIVE copy_modules(_, _, _, _, _)
\* "map[module.id] = generator.copy_module(module)" for the modules of ids
copy_modules(controller, gen, pipeline, ids, map) ==
    IF ids = <<>> THEN Result(controller, gen, map, "ok")
    ELSE Bind(copy_module(controller, gen, pipeline.modules[Head(ids)]),
              LAMBDA r :
                  copy_modules(r.controller, r.generator, pipeline, Tail(ids),
                               Put(map, Head(ids), r.ret)))

RECURSIVE copy_connections(_, _, _, _)
\* generator.connect_modules(map[src], sport, map[dst], dport) for each of conns
copy_connections(controller, gen, conns, map) ==
    IF conns = <<>> THEN Result(controller, gen, <<>>, "ok")
    ELSE IF Head(conns).src \notin DOMAIN map \/ Head(conns).dst \notin DOMAIN map
    THEN Result(controller, gen, <<>>, "KeyError")
    ELSE Bind(connect_modules(controller, gen, map[Head(conns).src],
                              Head(conns).sport, map[Head(conns).dst],
                              Head(conns).dport),
              LAMBDA r :
                  copy_connections(r.controller, r.generator, Tail(conns), map))

RECURSIVE connect_to_ports(_, _, _, _, _, _)
\* one connection from (module, port) to each of plot_ports; ret: their ids
connect_to_ports(controller, gen, module, port, plot_ports, connection_ids) ==
    IF plot_ports = <<>> THEN Result(controller, gen, connection_ids, "ok")
    ELSE Bind(connect_modules(controller, gen, module, port,
                              Head(plot_ports).module, Head(plot_ports).port),
              LAMBDA r :
                  connect_to_ports(r.controller, r.generator, module, port,
                                   Tail(plot_ports),
                                   Append(connection_ids, r.ret)))

RECURSIVE connect_outputs(_, _, _, _, _, _)
\* lines 1089-1096: for each connection to the OutputPort, for each plot port
connect_outputs(controller, gen, conns, map, plot_ports, connection_ids) ==
    IF conns = <<>> THEN Result(controller, gen, connection_ids, "ok")
    ELSE IF Head(conns).src \notin DOMAIN map
    THEN Result(controller, gen, connection_ids, "KeyError")
    ELSE Bind(connect_to_ports(controller, gen, map[Head(conns).src],
                               Head(conns).sport, plot_ports, connection_ids),
              LAMBDA r :
                  connect_outputs(r.controller, r.generator, Tail(conns), map,
                                  plot_ports, r.ret))

\* the OutputPort modules of a variable pipeline whose name is 'value'
output_ports(var_pipeline) ==
    {m \in DOMAIN var_pipeline.modules :
        /\ var_pipeline.modules[m].desc = "OutputPort"
        /\ get_function(var_pipeline.modules[m], "name") = "value"}

\* lines 1085-1104: the return of add_variable_subworkflow, once the modules
\* and the inner connections are copied
avs_return(copied, inner, var_pipeline, output_id, plot_ports) ==
    IF truthy(plot_ports)
    THEN Bind(connect_outputs(
                  inner.controller, inner.generator,
                  SortedConns({c \in var_pipeline.connections : c.dst = output_id}),
                  copied.ret, plot_ports, <<>>),
              LAMBDA wired :
                  Result(wired.controller, wired.generator,
                         ConnectionIds(wired.ret), wired.err))
    ELSE Bind(SortedConns({c \in var_pipeline.connections : c.dst = output_id}),
              LAMBDA to_output :
                  IF to_output = <<>>
                  THEN Result(inner.controller, inner.generator,
                              ConnectionIds(<<>>), "AssertionError")
                  ELSE IF to_output[1].src \notin DOMAIN copied.ret
                  THEN Result(inner.controller, inner.generator,
                              ConnectionIds(<<>>), "KeyError")
                  ELSE Result(inner.controller, inner.generator,
                              OutputPair(copied.ret[to_output[1].src],
                                         to_output[1].sport),
                              "ok"))

\* add_variable_subworkflow(generator, variable, plot_ports), var_pipeline
\* being the variable's pipeline
add_variable_subworkflow(controller, gen, var_pipeline, plot_ports) ==
    Bind(IF output_ports(var_pipeline) = {} THEN -1
         ELSE CHOOSE m \in output_ports(var_pipeline) :
                  \A o \in output_ports(var_pipeline) : o <= m,
         LAMBDA output_id :
             Bind(copy_modules(
                      controller, gen, var_pipeline,
                      SortedSeq(DOMAIN var_pipeline.modules
                                \ output_ports(var_pipeline)),
                      EmptyFn),
                  LAMBDA copied :
                      IF output_id = -1
                      THEN Result(copied.controller, copied.generator,
                                  ConnectionIds(<<>>), "ValueError")
                      ELSE Bind(copy_connections(
                                    copied.controller, copied.generator,
                                    SortedConns({c \in var_pipeline.connections :
                                                    c.dst # output_id}),
                                    copied.ret),
                                LAMBDA inner :
                                    IF inner.err # "ok"
                                    THEN Result(inner.controller, inner.generator,
                                                ConnectionIds(<<>>), inner.err)
                                    ELSE avs_return(copied, inner, var_pipeline,
                                                    output_id, plot_ports))))

\* Variable._get_variables_root(controller), the 'dat-vars' version existing:
\* selects that version
get_variables_root(controller) ==
    change_selected_version(controller, controller.vistrail.tags["dat-vars"])

\* Variable(type, controller, generator, output): [generator, output, type]
Variable(type, gen, output) == [generator |-> gen, output |-> output, type |-> type]

\* Variable.from_pipeline(controller, varname); ret is the Variable
from_pipeline(controller, varname) ==
    Bind(add_variable_subworkflow(controller, PipelineGenerator(controller),
                                  getPipeline(controller, VarTag(varname)), None),
         LAMBDA r :
             IF r.err # "ok" THEN r
             ELSE Result(get_variables_root(r.controller), r.generator,
                         Variable(VariableType(varname), r.generator, r.ret),
                         "ok"))

RECURSIVE operation_connections(_, _, _, _, _, _, _)
\* lines 444-461: st = [params, output]
operation_connections(controller, gen, pipeline, conns, map, params, output) ==
    IF conns = <<>>
    THEN Result(controller, gen, [params |-> params, output |-> output], "ok")
    ELSE Bind([c |-> Head(conns),
               param |-> get_function(pipeline.modules[Head(conns).src], "name")],
              LAMBDA at :
                  IF pipeline.modules[at.c.src].desc = "InputPort"
                  THEN IF at.c.dst \notin DOMAIN map
                       THEN Result(controller, gen,
                                   [params |-> params, output |-> output],
                                   "KeyError")
                       ELSE operation_connections(
                                controller, gen, pipeline, Tail(conns), map,
                                Put(params, at.param,
                                    (IF at.param \in DOMAIN params
                                     THEN params[at.param] ELSE <<>>)
                                    \o <<PlotPort(map[at.c.dst], at.c.dport)>>),
                                output)
                  ELSE IF at.c.src \notin DOMAIN map
                  THEN Result(controller, gen,
                              [params |-> params, output |-> output], "KeyError")
                  ELSE IF pipeline.modules[at.c.dst].desc = "OutputPort"
                  THEN operation_connections(
                           controller, gen, pipeline, Tail(conns), map, params,
                           OutputPair(map[at.c.src], at.c.sport))
                  ELSE IF at.c.dst \notin DOMAIN map
                  THEN Result(controller, gen,
                              [params |-> params, output |-> output], "KeyError")
                  ELSE Bind(connect_modules(controller, gen, map[at.c.src],
                                            at.c.sport, map[at.c.dst], at.c.dport),
                            LAMBDA r :
                                operation_connections(
                                    r.controller, r.generator, pipeline,
                                    Tail(conns), map, params, output)))

\* apply_operation_subworkflow(controller, op, subworkflow, args) for an
\* operation of one parameter, called 'input'; ret is the new Variable
apply_operation_subworkflow(controller, return_type, subworkflow, arg) ==
    Bind(copy_modules(
             controller, PipelineGenerator(controller), subworkflow,
             SortedSeq({m \in DOMAIN subworkflow.modules :
                           subworkflow.modules[m].desc
                               \notin {"InputPort", "OutputPort"}}),
             EmptyFn),
         LAMBDA copied :
             Bind(operation_connections(
                      copied.controller, copied.generator, subworkflow,
                      SortedConns(subworkflow.connections), copied.ret, EmptyFn,
                      OutputPair(-1, "")),
                  LAMBDA conns :
                      IF conns.err # "ok"
                      THEN Result(conns.controller, conns.generator,
                                  Variable(return_type, conns.generator,
                                           conns.ret.output),
                                  conns.err)
                      ELSE
                      Bind(connect_to_ports(
                               conns.controller,
                               append_operations(conns.generator,
                                                 arg.generator.operations),
                               arg.output.module, arg.output.port,
                               IF "input" \in DOMAIN conns.ret.params
                               THEN conns.ret.params["input"] ELSE <<>>,
                               <<>>),
                           LAMBDA wired :
                               Result(get_variables_root(wired.controller),
                                      wired.generator,
                                      Variable(return_type, wired.generator,
                                               conns.ret.output),
                                      "ok"))))

\* the typecast callable handed to create_pipeline and update_pipeline
typecast_operation(controller, var_pipeline, from_type, expected_type) ==
    apply_operation_subworkflow(controller, expected_type, CastSubworkflow,
                                var_pipeline)

\* lines 1124-1135: append the operations of the typecast variable and wire
\* it to the plot
avst_return(gen, cast, plot_ports) ==
    Bind(append_operations(gen, cast.ret.generator.operations),
         LAMBDA appended :
             IF truthy(plot_ports)
             THEN Bind(connect_to_ports(cast.controller, appended,
                                        cast.ret.output.module,
                                        cast.ret.output.port, plot_ports, <<>>),
                       LAMBDA wired :
                           Result(wired.controller, wired.generator,
                                  ConnectionIds(wired.ret), "ok"))
             ELSE Result(cast.controller, appended, cast.ret.output, "ok"))

add_variable_subworkflow_typecast_unchecked(controller, gen, variable, plot_ports, expected_type, typecast) ==
    add_variable_subworkflow(controller, gen,
                             getPipeline(controller, VarTag(variable)), plot_ports)

\* add_variable_subworkflow_typecast(generator, variable, plot_ports,
\*                                   expected_type, typecast)
\* typecast is TRUE when a callable was given, FALSE when it is None
add_variable_subworkflow_typecast(controller, gen, variable, plot_ports, expected_type, typecast) ==
    IF issubclass(VariableType(variable), expected_type)
    THEN add_variable_subworkflow(controller, gen,
                                  getPipeline(controller, VarTag(variable)),
                                  plot_ports)
    ELSE Bind(from_pipeline(controller, variable),
              LAMBDA loaded :
                  IF loaded.err # "ok"
                  THEN Result(loaded.controller, gen, ConnectionIds(<<>>),
                              loaded.err)
                  ELSE IF ~typecast
                  THEN Result(loaded.controller, gen, ConnectionIds(<<>>),
                              "TypeError")
                  ELSE Bind(typecast_operation(loaded.controller, loaded.ret,
                                               VariableType(variable),
                                               expected_type),
                            LAMBDA cast :
                                IF cast.err # "ok"
                                THEN Result(cast.controller, gen,
                                            ConnectionIds(<<>>), cast.err)
                                ELSE avst_return(gen, cast, plot_ports)))

\* add_constant_module(generator, descriptor, constant, plot_ports)
add_constant_module(controller, gen, descriptor, constant, plot_ports) ==
    Bind(create_module_from_descriptor(controller, descriptor),
         LAMBDA created :
             Bind(connect_to_ports(
                      created.controller,
                      update_function(
                          add_module(gen, created.ret, Module(descriptor, EmptyFn)),
                          created.ret, "value", constant),
                      created.ret, "value", plot_ports, <<>>),
                  LAMBDA wired :
                      Result(wired.controller, wired.generator,
                             ConnectionIds(wired.ret), "ok")))

(***************************************************************************)
(* create_pipeline (vistrails_interface.py:1154-1286).                     *)
(***************************************************************************)
\* PipelineInformation(version, recipe, conn_map, port_map)
PipelineInformation(version, recipe, conn_map, port_map) ==
    [version |-> version, recipe |-> recipe, conn_map |-> conn_map,
     port_map |-> port_map]

NoInfo == [version |-> -1]

\* str() and int() of the small integers written to Row and Column
Digits == <<"0", "1", "2", "3", "4", "5", "6", "7", "8", "9">>
str(n) == Digits[n + 1]
int(s) == (CHOOSE i \in DOMAIN Digits : Digits[i] = s) - 1

get_pipeline_location_one_based(controller, pipelineInfo) ==
    Bind(controller.vistrail.versions[pipelineInfo.version].pipeline,
         LAMBDA pipeline :
             Bind(find_modules_by_type(pipeline, "CellLocation"),
                  LAMBDA location_modules :
                      IF Len(location_modules) # 1
                      THEN [ret |-> <<>>, err |-> "ValueError"]
                      ELSE [ret |-> <<int(get_function(pipeline.modules[location_modules[1]], "Row")),
                                      int(get_function(pipeline.modules[location_modules[1]], "Column"))>>,
                            err |-> "ok"]))

\* get_pipeline_location(controller, pipelineInfo): ret is (row, col)
get_pipeline_location(controller, pipelineInfo) ==
    Bind(controller.vistrail.versions[pipelineInfo.version].pipeline,
         LAMBDA pipeline :
             Bind(find_modules_by_type(pipeline, "CellLocation"),
                  LAMBDA location_modules :
                      IF Len(location_modules) # 1
                      THEN [ret |-> <<>>, err |-> "ValueError"]
                      ELSE IF \E f \in {"Row", "Column"} :
                                  get_function(pipeline.modules[location_modules[1]], f)
                                      \notin Range(Digits)
                      THEN [ret |-> <<>>, err |-> "TypeError"]
                      ELSE [ret |-> <<int(get_function(pipeline.modules[location_modules[1]], "Row")) - 1,
                                      int(get_function(pipeline.modules[location_modules[1]], "Column")) - 1>>,
                            err |-> "ok"]))

\* the modules added by the operations staged after the first n
AddedModules(operations, n) ==
    {operations[i].id : i \in {j \in (n + 1)..Len(operations) :
        operations[j].op = "add" /\ operations[j].what = "module"}}

\* An entry of conn_map[port]: what the splicer returned for the binding.
\* 'made' is history, not program data: the modules staged for the binding.
Group(ret, made) ==
    [kind |-> ret.kind, ids |-> ret.ids, module |-> ret.module,
     port |-> ret.port, made |-> made]

\* lines 1199-1227: the CellLocation of the SpreadsheetCell
cp_location(controller, gen, plot_pipeline, plot_modules_map, cell_info) ==
    Bind([cell_modules |-> find_modules_by_type(plot_pipeline, "SpreadsheetCell"),
          modules |-> find_modules_by_type(plot_pipeline, "CellLocation")],
         LAMBDA found :
             IF found.cell_modules = <<>> THEN Result(controller, gen, <<>>, "ok")
             ELSE Bind(IF found.modules = <<>>
                       THEN Bind(create_module_from_descriptor(controller,
                                                               "CellLocation"),
                                 LAMBDA created :
                                     connect_modules(
                                         created.controller,
                                         add_module(gen, created.ret,
                                                    Module("CellLocation", EmptyFn)),
                                         created.ret, "self",
                                         plot_modules_map[found.cell_modules[1]],
                                         "Location")
                                     @@ [location_module |-> created.ret])
                       ELSE [controller |-> controller, generator |-> gen,
                             location_module |-> plot_modules_map[found.modules[1]]],
                       LAMBDA got :
                           Result(got.controller,
                                  update_function(
                                      update_function(got.generator,
                                                      got.location_module, "Row",
                                                      str(cell_info.row + 1)),
                                      got.location_module, "Column",
                                      str(cell_info.column + 1)),
                                  <<>>, "ok")))

RECURSIVE cp_connections(_, _, _, _, _, _)
\* lines 1229-1244: copy the connections and locate the input ports
cp_connections(controller, gen, plot_pipeline, conns, plot_modules_map, plot_params) ==
    IF conns = <<>> THEN Result(controller, gen, plot_params, "ok")
    ELSE Bind([c |-> Head(conns),
               param |-> get_function(plot_pipeline.modules[Head(conns).src],
                                      "name")],
              LAMBDA at :
                  IF plot_pipeline.modules[at.c.src].desc = "InputPort"
                  THEN cp_connections(
                           controller, gen, plot_pipeline, Tail(conns),
                           plot_modules_map,
                           Put(plot_params, at.param,
                               (IF at.param \in DOMAIN plot_params
                                THEN plot_params[at.param] ELSE <<>>)
                               \o <<PlotPort(plot_modules_map[at.c.dst],
                                             at.c.dport)>>))
                  ELSE Bind(connect_modules(
                                controller, gen, plot_modules_map[at.c.src],
                                at.c.sport, plot_modules_map[at.c.dst], at.c.dport),
                            LAMBDA r :
                                cp_connections(r.controller, r.generator,
                                               plot_pipeline, Tail(conns),
                                               plot_modules_map, plot_params)))

\* lines 1257-1270 and 1354-1367: splice one binding; ret is its conn_map entry
add_parameter(controller, gen, parameter, plot_ports, ports, port_name, typecast) ==
    IF port_name \notin DOMAIN ports
    THEN Result(controller, gen, Group(ConnectionIds(<<>>), {}), "KeyError")
    ELSE Bind(IF parameter.type = "VARIABLE"
              THEN add_variable_subworkflow_typecast(
                       controller, gen, parameter.variable, plot_ports,
                       ports[port_name].type, typecast)
              ELSE add_constant_module(controller, gen, ports[port_name].type,
                                       parameter.constant, plot_ports),
              LAMBDA r :
                  Result(r.controller, r.generator,
                         Group(r.ret, AddedModules(r.generator.operations,
                                                   Len(gen.operations))),
                         r.err))

RECURSIVE cp_parameters(_, _, _, _, _, _, _, _)
\* "for parameter in parameters"; ret is p_conns
cp_parameters(controller, gen, parameters, plot_ports, ports, port_name, typecast, p_conns) ==
    IF parameters = <<>> THEN Result(controller, gen, p_conns, "ok")
    ELSE Bind(add_parameter(controller, gen, Head(parameters), plot_ports,
                            ports, port_name, typecast),
              LAMBDA r :
                  IF r.err # "ok"
                  THEN Result(r.controller, r.generator, p_conns, r.err)
                  ELSE cp_parameters(r.controller, r.generator, Tail(parameters),
                                     plot_ports, ports, port_name, typecast,
                                     Append(p_conns, r.ret)))

RECURSIVE cp_ports(_, _, _, _, _, _, _, _)
\* "for port_name, parameters in recipe.parameters.iteritems()", the dict
\* yielding its keys in the given order; ret is conn_map
cp_ports(controller, gen, recipe, order, plot_params, ports, typecast, conn_map) ==
    IF order = <<>> THEN Result(controller, gen, conn_map, "ok")
    ELSE Bind(cp_parameters(controller, gen, recipe.parameters[Head(order)],
                            IF Head(order) \in DOMAIN plot_params
                            THEN plot_params[Head(order)] ELSE <<>>,
                            ports, Head(order), typecast, <<>>),
              LAMBDA r :
                  IF r.err # "ok"
                  THEN Result(r.controller, r.generator, conn_map, r.err)
                  ELSE cp_ports(r.controller, r.generator, recipe, Tail(order),
                                plot_params, ports, typecast,
                                Put(conn_map, Head(order), r.ret)))

cp_commit_bound_ports(spliced, recipe, plot_params) ==
    IF spliced.err # "ok"
    THEN Result(spliced.controller, spliced.generator, NoInfo, spliced.err)
    ELSE Bind(perform_action(change_selected_version(spliced.controller, 0),
                             spliced.generator),
              LAMBDA performed :
                  IF performed.err # "ok"
                  THEN Result(spliced.controller, spliced.generator, NoInfo,
                              performed.err)
                  ELSE Result(performed.controller, performed.generator,
                              PipelineInformation(
                                  performed.ret, recipe, spliced.ret,
                                  [p \in DOMAIN plot_params \cap DOMAIN recipe.parameters |->
                                      plot_params[p]]),
                              "ok"))

cp_commit_from_selected(spliced, recipe, plot_params) ==
    IF spliced.err # "ok"
    THEN Result(spliced.controller, spliced.generator, NoInfo, spliced.err)
    ELSE Bind(perform_action(spliced.controller, spliced.generator),
              LAMBDA performed :
                  IF performed.err # "ok"
                  THEN Result(spliced.controller, spliced.generator, NoInfo,
                              performed.err)
                  ELSE Result(performed.controller, performed.generator,
                              PipelineInformation(performed.ret, recipe,
                                                  spliced.ret, plot_params),
                              "ok"))

\* lines 1272-1286: commit from version 0 and build the record
cp_commit(spliced, recipe, plot_params) ==
    IF spliced.err # "ok"
    THEN Result(spliced.controller, spliced.generator, NoInfo, spliced.err)
    ELSE Bind(IF spliced.controller.current_version # 0
              THEN change_selected_version(spliced.controller, 0)
              ELSE spliced.controller,
              LAMBDA c1 :
                  Bind(perform_action(c1, spliced.generator),
                       LAMBDA performed :
                           IF performed.err # "ok"
                           THEN Result(c1, spliced.generator, NoInfo,
                                       performed.err)
                           ELSE Result(performed.controller, performed.generator,
                                       PipelineInformation(performed.ret, recipe,
                                                           spliced.ret,
                                                           plot_params),
                                       "ok")))

\* create_pipeline(controller, recipe, cell_info, typecast): ret is the
\* PipelineInformation
create_pipeline(controller, recipe, cell_info, typecast, order) ==
    Bind([c0 |-> change_selected_version(controller, 0),
          plot_pipeline |-> Plots[recipe.plot].subworkflow],
         LAMBDA at :
             Bind(copy_modules(
                      at.c0, PipelineGenerator(at.c0), at.plot_pipeline,
                      SortedSeq({m \in DOMAIN at.plot_pipeline.modules :
                                    at.plot_pipeline.modules[m].desc # "InputPort"}),
                      EmptyFn),
                  LAMBDA copied :
                      Bind(cp_location(copied.controller, copied.generator,
                                       at.plot_pipeline, copied.ret, cell_info),
                           LAMBDA located :
                               Bind(cp_connections(
                                        located.controller, located.generator,
                                        at.plot_pipeline,
                                        SortedConns(at.plot_pipeline.connections),
                                        copied.ret, EmptyFn),
                                    LAMBDA connected :
                                        Bind(cp_ports(
                                                 connected.controller,
                                                 connected.generator, recipe,
                                                 order, connected.ret,
                                                 name_to_port(Plots[recipe.plot]),
                                                 typecast, EmptyFn),
                                             LAMBDA spliced :
                                                 cp_commit(spliced, recipe,
                                                           connected.ret))))))

(***************************************************************************)
(* update_pipeline (vistrails_interface.py:1298-1403).                     *)
(***************************************************************************)
\* recipe.parameters.get(port_name, [])
Bindings(recipe, port) ==
    IF port \in DOMAIN recipe.parameters THEN recipe.parameters[port] ELSE <<>>

\* RecipeParameterValue.__eq__: two bindings are equal when they bind the
\* same variable or hold the same constant
parameter_eq(a, b) ==
    /\ a.type = b.type
    /\ a.variable = b.variable
    /\ a.constant = b.constant

\* the key of old_params equal to param, if there is one
old_key(old_params, param) ==
    {k \in DOMAIN old_params : parameter_eq(k, param)}

\* list(group): a list of the elements of the group, whatever it was
list(group) == [group EXCEPT !.kind = "list"]

RECURSIVE up_old_params(_, _, _, _)
\* lines 1329-1332: old_params maps a binding to the conn_map entries of its
\* occurrences, in order; err is set when conn_map lacks an entry
up_old_params(parameters, conn_list, i, old_params) ==
    IF i > Len(parameters) THEN [ret |-> old_params, err |-> "ok"]
    ELSE IF i > Len(conn_list) THEN [ret |-> old_params, err |-> "IndexError"]
    ELSE Bind(old_key(old_params, parameters[i]),
              LAMBDA keys :
                  up_old_params(
                      parameters, conn_list, i + 1,
                      IF keys = {}
                      THEN Put(old_params, parameters[i], <<list(conn_list[i])>>)
                      ELSE Put(old_params, CHOOSE k \in keys : TRUE,
                               Append(old_params[CHOOSE k \in keys : TRUE],
                                      list(conn_list[i])))))

up_match_last(old_params, param) ==
    Bind(CHOOSE k \in old_key(old_params, param) : TRUE,
         LAMBDA key :
             [old_conns |-> old_params[key][Len(old_params[key])],
              old_params |-> IF Len(old_params[key]) = 1
                             THEN Drop(old_params, {key})
                             ELSE Put(old_params, key,
                                      SubSeq(old_params[key], 1,
                                             Len(old_params[key]) - 1))])

\* lines 1339-1345: old.pop(0), and the key goes when its list is empty
up_match(old_params, param) ==
    Bind(CHOOSE k \in old_key(old_params, param) : TRUE,
         LAMBDA key :
             [old_conns |-> Head(old_params[key]),
              old_params |-> IF Tail(old_params[key]) = <<>>
                             THEN Drop(old_params, {key})
                             ELSE Put(old_params, key, Tail(old_params[key]))])

RECURSIVE up_new_params(_, _, _, _, _, _, _, _)
\* lines 1337-1369: "for param in new_params";
\* st = [old_params, conn_lists, added_params]
up_new_params(controller, gen, pipeline, pipelineInfo, new_params, port_name, typecast, st) ==
    IF new_params = <<>> THEN Result(controller, gen, st, "ok")
    ELSE IF old_key(st.old_params, Head(new_params)) # {}
    THEN Bind(up_match(st.old_params, Head(new_params)),
              LAMBDA matched :
                  up_new_params(
                      controller, gen, pipeline, pipelineInfo, Tail(new_params),
                      port_name, typecast,
                      [st EXCEPT !.old_params = matched.old_params,
                                 !.conn_lists = Append(@, matched.old_conns)]))
    ELSE IF port_name \notin DOMAIN pipelineInfo.port_map
    THEN Result(controller, gen, st, "KeyError")
    ELSE IF \E t \in Range(pipelineInfo.port_map[port_name]) :
                t.module \notin DOMAIN pipeline.modules
    THEN Result(controller, gen, st, "KeyError")
    ELSE Bind(add_parameter(controller, gen, Head(new_params),
                            pipelineInfo.port_map[port_name],
                            name_to_port(Plots[pipelineInfo.recipe.plot]),
                            port_name, typecast),
              LAMBDA r :
                  IF r.err # "ok"
                  THEN Result(r.controller, r.generator, st, r.err)
                  ELSE up_new_params(
                           r.controller, r.generator, pipeline, pipelineInfo,
                           Tail(new_params), port_name, typecast,
                           [st EXCEPT !.conn_lists = Append(@, r.ret),
                                      !.added_params = Append(@, port_name)]))

RECURSIVE up_leftover(_, _, _)
\* the entries left in old_params, key by key in the order the bindings have
\* in the old recipe
up_leftover(parameters, old_params, seen) ==
    IF parameters = <<>> THEN <<>>
    ELSE Bind(old_key(old_params, Head(parameters)),
              LAMBDA keys :
                  IF keys = {} \/ keys \subseteq seen
                  THEN up_leftover(Tail(parameters), old_params, seen)
                  ELSE old_params[CHOOSE k \in keys : TRUE]
                       \o up_leftover(Tail(parameters), old_params,
                                      seen \cup keys))

up_connection_filter_open(pipeline, connections) == AlwaysTrue

\* line 1384: connection_filter=lambda c: c not in connections
up_connection_filter(pipeline, connections) == Rejecting(connections)

RECURSIVE up_remove(_, _, _, _, _, _)
\* lines 1374-1386: remove the subworkflow of each entry left in old_params;
\* ret is removed_params
up_remove(controller, gen, pipeline, leftover, port_name, removed_params) ==
    IF leftover = <<>> THEN Result(controller, gen, removed_params, "ok")
    ELSE IF \/ Head(leftover).module # -1
            \/ \E id \in Range(Head(leftover).ids) :
                   \A c \in pipeline.connections : c.id # id
    THEN Result(controller, gen, removed_params, "KeyError")
    ELSE Bind({c \in pipeline.connections : c.id \in Range(Head(leftover).ids)},
              LAMBDA connections :
                  IF ~({c.src : c \in connections} \subseteq DOMAIN pipeline.modules)
                  THEN Result(controller, gen, removed_params, "KeyError")
                  ELSE Bind(gen_delete_linked(
                                controller, gen, {c.src : c \in connections},
                                AlwaysTrue,
                                up_connection_filter(pipeline, connections),
                                maxint),
                            LAMBDA deleted :
                                up_remove(controller, deleted, pipeline,
                                          Tail(leftover), port_name,
                                          Append(removed_params, port_name))))

\* lines 1329-1386 for one port; ret = [conn_lists, added_params,
\* removed_params]
up_port(controller, gen, pipeline, pipelineInfo, new_recipe, port_name, typecast, st) ==
    Bind(up_old_params(Bindings(pipelineInfo.recipe, port_name),
                       IF port_name \in DOMAIN pipelineInfo.conn_map
                       THEN pipelineInfo.conn_map[port_name] ELSE <<>>,
                       1, EmptyFn),
         LAMBDA old :
             IF old.err # "ok" THEN Result(controller, gen, st, "KeyError")
             ELSE Bind(up_new_params(
                           controller, gen, pipeline, pipelineInfo,
                           Bindings(new_recipe, port_name), port_name, typecast,
                           [old_params |-> old.ret, conn_lists |-> <<>>,
                            added_params |-> st.added_params]),
                       LAMBDA added :
                           IF added.err # "ok"
                           THEN Result(added.controller, added.generator, st,
                                       added.err)
                           ELSE Bind(up_remove(
                                         added.controller, added.generator,
                                         pipeline,
                                         up_leftover(
                                             Bindings(pipelineInfo.recipe, port_name),
                                             added.ret.old_params, {}),
                                         port_name, st.removed_params),
                                     LAMBDA removed :
                                         Result(removed.controller,
                                                removed.generator,
                                                [conn_lists |-> added.ret.conn_lists,
                                                 added_params |-> added.ret.added_params,
                                                 removed_params |-> removed.ret],
                                                removed.err))))

RECURSIVE up_ports(_, _, _, _, _, _, _, _)
\* lines 1326-1386: "for port_name in (set(old keys) | set(new keys))", the
\* set yielding the names in the given order;
\* st = [conn_map, added_params, removed_params]
up_ports(controller, gen, pipeline, pipelineInfo, new_recipe, order, typecast, st) ==
    IF order = <<>> THEN Result(controller, gen, st, "ok")
    ELSE Bind(up_port(controller, gen, pipeline, pipelineInfo, new_recipe,
                      Head(order), typecast, st),
              LAMBDA r :
                  IF r.err # "ok" THEN Result(r.controller, r.generator, st, r.err)
                  ELSE up_ports(
                           r.controller, r.generator, pipeline, pipelineInfo,
                           new_recipe, Tail(order), typecast,
                           [conn_map |-> Put(st.conn_map, Head(order),
                                             r.ret.conn_lists),
                            added_params |-> r.ret.added_params,
                            removed_params |-> r.ret.removed_params]))

up_unchanged_never(added_params, removed_params) == FALSE

\* line 1389: "if not (added_params or removed_params)"
up_unchanged(added_params, removed_params) ==
    added_params = <<>> /\ removed_params = <<>>

up_commit_despite_error(changed, pipelineInfo, new_recipe) ==
    Bind(perform_action(change_selected_version(changed.controller,
                                                pipelineInfo.version),
                        changed.generator),
         LAMBDA performed :
             IF changed.err # "ok"
             THEN Result(performed.controller, performed.generator, NoInfo,
                         changed.err)
             ELSE Result(performed.controller, performed.generator,
                         PipelineInformation(performed.ret, new_recipe,
                                             changed.ret.conn_map,
                                             pipelineInfo.port_map),
                         "ok"))

up_reselect_never(controller, pipelineInfo) == controller

\* lines 1392-1393: select the prior record's version again if it is not
up_reselect(controller, pipelineInfo) ==
    IF controller.current_version # pipelineInfo.version
    THEN change_selected_version(controller, pipelineInfo.version)
    ELSE controller

\* lines 1388-1403: return the prior record, or commit from its version and
\* build the new record
up_commit(changed, pipelineInfo, new_recipe) ==
    IF changed.err # "ok"
    THEN Result(changed.controller, changed.generator, NoInfo, changed.err)
    ELSE IF up_unchanged(changed.ret.added_params, changed.ret.removed_params)
    THEN Result(changed.controller, changed.generator, pipelineInfo, "ok")
    ELSE Bind(up_reselect(changed.controller, pipelineInfo),
              LAMBDA c1 :
                  Bind(perform_action(c1, changed.generator),
                       LAMBDA performed :
                           IF performed.err # "ok"
                           THEN Result(c1, changed.generator, NoInfo,
                                       performed.err)
                           ELSE Result(performed.controller, performed.generator,
                                       PipelineInformation(
                                           performed.ret, new_recipe,
                                           changed.ret.conn_map,
                                           pipelineInfo.port_map),
                                       "ok")))

plot_differs_never(old_recipe, new_recipe) == FALSE

\* line 1313: "if old_recipe.plot != new_recipe.plot"
plot_differs(old_recipe, new_recipe) == old_recipe.plot # new_recipe.plot

\* update_pipeline(controller, pipelineInfo, new_recipe, typecast): ret is
\* the PipelineInformation returned
update_pipeline(controller, pipelineInfo, new_recipe, typecast, order) ==
    Bind(change_selected_version(controller, pipelineInfo.version),
         LAMBDA c0 :
             IF plot_differs(pipelineInfo.recipe, new_recipe)
             THEN Result(c0, [operations |-> <<>>, all_modules |-> {},
                              all_connections |-> {}],
                         NoInfo, "UpdateError")
             ELSE Bind(up_ports(c0, PipelineGenerator(c0), current_pipeline(c0),
                                pipelineInfo, new_recipe, order, typecast,
                                [conn_map |-> EmptyFn, added_params |-> <<>>,
                                 removed_params |-> <<>>]),
                       LAMBDA changed :
                           up_commit(changed, pipelineInfo, new_recipe)))

(***************************************************************************)
(* The client of the compiler: one cell of the spreadsheet, whose pipeline *)
(* is created from a recipe and then updated to other recipes.             *)
(***************************************************************************)
MaxBindings == 2   \* bindings of a recipe, over all its ports

RECURSIVE Lists(_, _)
\* the lists of at most n elements of S
Lists(S, n) ==
    IF n = 0 THEN {<<>>}
    ELSE Lists(S, n - 1) \cup {Append(l, x) : l \in Lists(S, n - 1), x \in S}

\* a recipe of the plot 'Line': variables on 'data', at most one constant on
\* 'color' and on 'label', at most one variable on 'aux'; a port without
\* binding has no key
Recipe(data, color, aux, label) ==
    LET all == [data |-> data, color |-> color, aux |-> aux, label |-> label]
    IN [plot |-> "Line",
        parameters |-> [q \in {k \in DOMAIN all : all[k] # <<>>} |-> all[q]]]

LineRecipes ==
    {Recipe(t[1], t[2], t[3], t[4]) :
        t \in {u \in Lists({VariableValue("A"), VariableValue("B")}, MaxBindings)
                     \X {<<>>, <<ConstantValue("red")>>}
                     \X {<<>>, <<VariableValue("A")>>}
                     \X {<<>>, <<ConstantValue("title")>>} :
                  Len(u[1]) + Len(u[2]) + Len(u[3]) + Len(u[4]) <= MaxBindings}}

\* the recipes of the plot 'Bar': one variable on 'data'
BarRecipes ==
    {[plot |-> "Bar", parameters |-> [data |-> <<VariableValue(v)>>]] : v \in {"A", "B"}}

\* a recipe that names a port the plot does not have
UnknownPortRecipes ==
    {[plot |-> "Line",
      parameters |-> [data |-> <<VariableValue("A")>>,
                      size |-> <<ConstantValue("big")>>]]}

Recipes == LineRecipes \cup BarRecipes \cup UnknownPortRecipes

RECURSIVE Orders(_)
\* the orders in which a dict or set can yield the keys of K
Orders(K) ==
    IF K = {} THEN {<<>>}
    ELSE UNION {{<<k>> \o o : o \in Orders(K \ {k})} : k \in K}

Cells == {[row |-> 0, column |-> 1]}

\* whether the caller hands a typecast to the compiler
Typecasts == {TRUE, FALSE}

\* The vistrail once the variables A and B are loaded: version 1 is
\* 'dat-vars', versions 2 and 3 are the pipelines of A and B.
OutputPortModule == Module("OutputPort", [name |-> "value"])

LoadedVistrail ==
    [versions |->
         (0 :> [parent |-> 0, pipeline |-> EmptyPipeline])
         @@ (1 :> [parent |-> 0,
                   pipeline |-> [modules |-> (1 :> OutputPortModule),
                                 connections |-> {}]])
         @@ (2 :> [parent |-> 1,
                   pipeline |->
                       [modules |-> (1 :> OutputPortModule)
                                    @@ (2 :> Module("Reader", EmptyFn))
                                    @@ (3 :> Module("Filter", EmptyFn)),
                        connections |-> {Connection(1, 2, "out", 3, "in"),
                                         Connection(2, 3, "out", 1, "InternalPipe")}]])
         @@ (3 :> [parent |-> 1,
                   pipeline |->
                       [modules |-> (1 :> OutputPortModule)
                                    @@ (4 :> Module("TableReader", EmptyFn)),
                        connections |-> {Connection(3, 4, "out", 1, "InternalPipe")}]]),
     tags |-> [t \in {"dat-vars", "dat-var-A", "dat-var-B"} |->
                  IF t = "dat-vars" THEN 1 ELSE IF t = "dat-var-A" THEN 2 ELSE 3],
     idScope |-> [module |-> 5, connection |-> 4, version |-> 4]]

Controller == [vistrail |-> vistrail, current_version |-> current_version]

Init ==
    /\ vistrail = LoadedVistrail
    /\ current_version \in DOMAIN LoadedVistrail.versions
    /\ generator = PipelineGenerator(Controller)
    /\ info = NoInfo
    /\ last = [op |-> "none"]
    /\ pc = "idle"
    /\ manager = Manager

\* info = create_pipeline(controller, recipe, cell_info, typecast), the client
\* keeping the record when the call returns; the dict of the recipe yields its
\* keys in any order
CreatePipeline(recipe, cell_info, typecast) ==
    /\ pc = "idle"
    /\ \E order \in Orders(DOMAIN recipe.parameters) :
           \E r \in {create_pipeline(Controller, recipe, cell_info, typecast, order)} :
               /\ vistrail' = r.controller.vistrail
               /\ current_version' = r.controller.current_version
               /\ generator' = r.generator
               /\ info' = IF r.err = "ok" THEN r.ret ELSE info
               /\ last' = [op |-> "create_pipeline", recipe |-> recipe,
                           cell_info |-> cell_info, typecast |-> typecast,
                           order |-> order, prior |-> info, before |-> vistrail,
                           err |-> r.err, ret |-> r.ret]
               /\ pc' = IF r.err = "ok" THEN "compiled" ELSE "raised"
    /\ UNCHANGED manager

\* info = update_pipeline(controller, info, new_recipe, typecast), once; the
\* set of the port names yields them in any order
UpdatePipeline(new_recipe, typecast) ==
    /\ pc = "compiled"
    /\ \E order \in Orders(DOMAIN info.recipe.parameters
                            \cup DOMAIN new_recipe.parameters) :
           \E r \in {update_pipeline(Controller, info, new_recipe, typecast, order)} :
               /\ vistrail' = r.controller.vistrail
               /\ current_version' = r.controller.current_version
               /\ generator' = r.generator
               /\ info' = IF r.err = "ok" THEN r.ret ELSE info
               /\ last' = [op |-> "update_pipeline", recipe |-> new_recipe,
                           cell_info |-> [row |-> 0, column |-> 0],
                           typecast |-> typecast, order |-> order, prior |-> info,
                           before |-> vistrail, err |-> r.err, ret |-> r.ret]
               /\ pc' = "updated"
    /\ UNCHANGED manager

Next ==
    \/ \E recipe \in Recipes, cell_info \in Cells, typecast \in Typecasts :
          CreatePipeline(recipe, cell_info, typecast)
    \/ \E new_recipe \in Recipes, typecast \in Typecasts :
          UpdatePipeline(new_recipe, typecast)

Spec == Init /\ [][Next]_vars

(***************************************************************************)
(* What create_pipeline and update_pipeline leave behind.                  *)
(***************************************************************************)
Compiled == last.op = "create_pipeline" /\ last.err = "ok"
UpdateCalled == last.op = "update_pipeline"
Updated == UpdateCalled /\ last.err = "ok"

\* the errors the compiler raises on purpose
Refusals == {"UpdateError", "TypeError"}

\* the graph of the prior record and the graph of the record now held
OldGraph == vistrail.versions[last.prior.version].pipeline
NewGraph == vistrail.versions[info.version].pipeline

Groups(record, port) ==
    IF port \in DOMAIN record.conn_map THEN record.conn_map[port] ELSE <<>>

PortNames == {LinePorts[i].name : i \in DOMAIN LinePorts}

\* the boundary targets the plot template has for a port
Targets(port) ==
    {c \in LineSubworkflow.connections :
        /\ LineSubworkflow.modules[c.src].desc = "InputPort"
        /\ get_function(LineSubworkflow.modules[c.src], "name") = port}

\* occurrences of v among the first i bindings of a list
Occ(list_, v, i) == Cardinality({k \in 1..i : list_[k] = v})
Count(list_, v) == Occ(list_, v, Len(list_))

\* reconciliation by value: the new binding i is matched when the old list
\* has at least as many occurrences of its value as the new list up to i, and
\* its partner is the old occurrence of the same rank
Matched(old, new, i) == Occ(new, new[i], i) <= Count(old, new[i])
Partner(old, new, i) ==
    CHOOSE j \in DOMAIN old :
        old[j] = new[i] /\ Occ(old, old[j], j) = Occ(new, new[i], i)
Unmatched(old, new, j) == Occ(old, old[j], j) > Count(new, old[j])

\* the edges of a graph that touch one of the modules
Incident(graph, modules) ==
    {c \in graph.connections : c.src \in modules \/ c.dst \in modules}

\* the edges that tie the modules made for a binding to the rest of the graph
WiringEdges(graph, made) ==
    {c.id : c \in {d \in graph.connections : d.src \in made /\ d.dst \notin made}}

\* what a group holds, whatever holds it
Elements(group) == [ids |-> group.ids, module |-> group.module, port |-> group.port]

GroupElements(record, port) ==
    [i \in DOMAIN Groups(record, port) |-> Elements(Groups(record, port)[i])]

IsIdList(group) == group.kind = "list" /\ group.module = -1

Max(a, b) == IF a >= b THEN a ELSE b

\* C1: in the record held after create_pipeline and after successful updates,
\* conn_map has, for each of its ports, one group per binding of the recipe on
\* that port, and each group is a list of exactly the ids of the edges that
\* wire the binding to the plot (an empty list when the port has no boundary
\* target).
C1_ConnMapGroups ==
    info # NoInfo =>
        \A port \in DOMAIN info.conn_map :
            /\ Len(info.conn_map[port]) = Len(Bindings(info.recipe, port))
            /\ \A i \in DOMAIN info.conn_map[port] :
                   LET group == info.conn_map[port][i]
                   IN /\ IsIdList(group)
                      /\ Range(group.ids) = WiringEdges(NewGraph, group.made)
                      /\ Len(group.ids) = Cardinality(Range(group.ids))

\* the new recipe is the old one plus one constant binding at the end of port
PlusConstant(R1, R2, port) ==
    /\ Len(Bindings(R2, port)) = Len(Bindings(R1, port)) + 1
    /\ SubSeq(Bindings(R2, port), 1, Len(Bindings(R1, port))) = Bindings(R1, port)
    /\ Bindings(R2, port)[Len(Bindings(R2, port))].type = "CONSTANT"
    /\ \A q \in PortNames \ {port} : Bindings(R2, q) = Bindings(R1, q)

\* C2: updating to the same recipe plus one constant binding on a port adds
\* one constant module and one edge from it to each boundary target of the
\* port, deletes nothing, and leaves the groups of the other ports as they
\* were.
C2_DiffMinimality ==
    \A port \in PortNames :
        (UpdateCalled /\ PlusConstant(last.prior.recipe, last.recipe, port)) =>
            /\ last.err = "ok"
            /\ \E n \in DOMAIN NewGraph.modules \ DOMAIN OldGraph.modules :
                  /\ DOMAIN NewGraph.modules = DOMAIN OldGraph.modules \cup {n}
                  /\ get_function(NewGraph.modules[n], "value")
                         = last.recipe.parameters[port][Len(last.recipe.parameters[port])].constant
                  /\ OldGraph.connections \subseteq NewGraph.connections
                  /\ \A c \in NewGraph.connections \ OldGraph.connections :
                         c.src = n /\ c.sport = "value"
                  /\ Cardinality(NewGraph.connections \ OldGraph.connections)
                         = Cardinality(Targets(port))
            /\ \A m \in DOMAIN OldGraph.modules :
                   NewGraph.modules[m] = OldGraph.modules[m]
            /\ \A q \in PortNames \ {port} :
                   GroupElements(info, q) = GroupElements(last.prior, q)

\* C3: after a successful update, every new binding matched to an old binding
\* of equal value holds the elements of that old binding's group, the edges of
\* the group are in the new graph with the endpoints they had, and the
\* modules made for the binding have the edges they had, no more and no less.
C3_MatchedCarriedForward ==
    Updated =>
        \A port \in DOMAIN last.recipe.parameters :
            LET old == Bindings(last.prior.recipe, port)
                new == Bindings(info.recipe, port)
            IN \A i \in DOMAIN new :
                   Matched(old, new, i) =>
                       LET was == last.prior.conn_map[port][Partner(old, new, i)]
                           group == info.conn_map[port][i]
                       IN /\ Elements(group) = Elements(was)
                          /\ group.made = was.made
                          /\ \A id \in Range(was.ids) :
                                 \E c \in OldGraph.connections :
                                     c.id = id /\ c \in NewGraph.connections
                          /\ was.made \subseteq DOMAIN NewGraph.modules
                          /\ Incident(NewGraph, was.made)
                                 = Incident(OldGraph, was.made)

C3_Witness ==
    /\ Updated
    /\ info # last.prior
    /\ \E port \in DOMAIN last.recipe.parameters :
           LET old == Bindings(last.prior.recipe, port)
               new == Bindings(info.recipe, port)
           IN /\ \E i \in DOMAIN new : Matched(old, new, i) /\ Partner(old, new, i) # i
              /\ \E j \in DOMAIN old : Unmatched(old, new, j)

\* C4: update_pipeline(C, C.recipe) returns the record C itself, stages no
\* operation and adds no version to the vistrail.
C4_NoOpUpdate ==
    (UpdateCalled /\ last.recipe = last.prior.recipe) =>
        /\ last.err = "ok"
        /\ last.ret = last.prior
        /\ info = last.prior
        /\ generator.operations = <<>>
        /\ vistrail.versions = last.before.versions

C4_Witness ==
    /\ Updated
    /\ last.recipe = last.prior.recipe
    /\ \E port \in DOMAIN last.recipe.parameters : Len(last.recipe.parameters[port]) = 2

\* the values bound in the old or in the new recipe on a port
Values(port) ==
    Range(Bindings(last.prior.recipe, port)) \cup Range(Bindings(last.recipe, port))

\* the groups of the record now held, for value v on a port, that were made
\* by the last call, and those that were there before it
Spliced(port, v) ==
    Cardinality({i \in DOMAIN Groups(info, port) :
                    /\ info.recipe.parameters[port][i] = v
                    /\ info.conn_map[port][i].made \cap DOMAIN OldGraph.modules = {}})
Kept(port, v) ==
    Cardinality({i \in DOMAIN Groups(info, port) :
                    /\ info.recipe.parameters[port][i] = v
                    /\ info.conn_map[port][i].made \subseteq DOMAIN OldGraph.modules})

\* C5: update_pipeline, unless it refuses the recipe, reconciles old and new
\* bindings of each port as multisets: for each value v it splices
\* max(0, new - old) subgraphs and removes max(0, old - new) bindings; a new
\* recipe that permutes the bindings of the ports stages nothing.
C5_MultisetReconciliation ==
    (UpdateCalled /\ last.err \notin Refusals) =>
        /\ last.err = "ok"
        /\ \A port \in PortNames :
               \A v \in Values(port) :
                   LET co == Count(Bindings(last.prior.recipe, port), v)
                       cn == Count(Bindings(last.recipe, port), v)
                   IN /\ Spliced(port, v) = Max(0, cn - co)
                      /\ co - Kept(port, v) = Max(0, co - cn)
        /\ (\A port \in PortNames :
                \A v \in Values(port) :
                    Count(Bindings(last.prior.recipe, port), v)
                        = Count(Bindings(last.recipe, port), v))
               => generator.operations = <<>>

\* C6: after a successful update, the modules made for an old binding that
\* was not matched, the edges that touch them and the edges of its group are
\* not in the new graph.
C6_RemovedBindingGone ==
    Updated =>
        \A port \in DOMAIN last.prior.recipe.parameters :
            LET old == Bindings(last.prior.recipe, port)
                new == Bindings(last.recipe, port)
            IN \A j \in DOMAIN old :
                   Unmatched(old, new, j) =>
                       LET was == last.prior.conn_map[port][j]
                       IN /\ was.made \cap DOMAIN NewGraph.modules = {}
                          /\ Incident(NewGraph, was.made) = {}
                          /\ \A c \in NewGraph.connections :
                                 c.id \notin Range(was.ids)

(***************************************************************************)
(* Identity of the modules a call stages.                                  *)
(***************************************************************************)
Called == last.op \in {"create_pipeline", "update_pipeline"}

\* the ids of the modules of all the versions of a vistrail
AllModuleIds(vt) ==
    UNION {DOMAIN vt.versions[v].pipeline.modules : v \in DOMAIN vt.versions}

\* the positions of the staged operations that add a module
StagedAdds ==
    {i \in DOMAIN generator.operations :
        generator.operations[i].op = "add" /\ generator.operations[i].what = "module"}

\* the groups of a record, as <<port, index>>
GroupKeys(record) ==
    UNION {{<<port, i>> : i \in DOMAIN record.conn_map[port]} :
              port \in DOMAIN record.conn_map}

\* C11: every module a call stages has an id that no module of any version
\* had and that the id scope had not handed out before the call; no two staged
\* modules share an id; and the modules made for two bindings of the record
\* held, the same variable bound twice included, are disjoint.
C11_FreshCopyIds ==
    Called =>
        /\ \A i \in StagedAdds :
               /\ generator.operations[i].id \notin AllModuleIds(last.before)
               /\ generator.operations[i].id >= last.before.idScope.module
               /\ generator.operations[i].id < vistrail.idScope.module
        /\ \A i, j \in StagedAdds :
               i # j => generator.operations[i].id # generator.operations[j].id
        /\ \A m \in AllModuleIds(vistrail) : m < vistrail.idScope.module
        /\ info # NoInfo =>
               \A k1, k2 \in GroupKeys(info) :
                   k1 # k2 => info.conn_map[k1[1]][k1[2]].made
                                  \cap info.conn_map[k2[1]][k2[2]].made = {}

\* the variable A is bound twice by an update that first staged the removal
\* of a constant: both copies are in the new graph, under different ids
C11_Witness ==
    /\ Updated
    /\ Bindings(last.recipe, "data") = <<VariableValue("A"), VariableValue("A")>>
    /\ Bindings(last.prior.recipe, "color") # <<>>
    /\ last.order[1] = "color"
    /\ info.conn_map["data"][1].made # {}
    /\ info.conn_map["data"][2].made # {}
    /\ info.conn_map["data"][1].made \cup info.conn_map["data"][2].made
           \subseteq DOMAIN NewGraph.modules

(***************************************************************************)
(* The port map of a created pipeline.                                     *)
(***************************************************************************)
\* the ports of a plot, by optionality
PlotPortNames(plot, optional) ==
    {Plots[plot].ports[i].name :
        i \in {j \in DOMAIN Plots[plot].ports : Plots[plot].ports[j].optional = optional}}

\* the edges the template of a plot has from the InputPort module of a port
PlotTargets(plot, port) ==
    {c \in Plots[plot].subworkflow.connections :
        /\ Plots[plot].subworkflow.modules[c.src].desc = "InputPort"
        /\ get_function(Plots[plot].subworkflow.modules[c.src], "name") = port}

\* a recipe that binds every non-optional port of its plot
ValidRecipe(recipe) ==
    PlotPortNames(recipe.plot, FALSE) \subseteq DOMAIN recipe.parameters

\* the graph of the record the last call returned
RetGraph == vistrail.versions[last.ret.version].pipeline

\* every module the port map names is a module of the graph returned
PortMapNodesExist ==
    \A port \in DOMAIN last.ret.port_map :
        \A i \in DOMAIN last.ret.port_map[port] :
            last.ret.port_map[port][i].module \in DOMAIN RetGraph.modules

\* C12 as stated: the keys of create_pipeline(R).port_map are the non-optional
\* ports of the plot plus the optional ports R binds, and every module id in
\* port_map is a module of the new version.
C12_PortMapKeys ==
    (Compiled /\ ValidRecipe(last.recipe)) =>
        /\ DOMAIN last.ret.port_map
               = PlotPortNames(last.recipe.plot, FALSE)
                     \cup (PlotPortNames(last.recipe.plot, TRUE)
                               \cap DOMAIN last.recipe.parameters)
        /\ PortMapNodesExist

\* C12, amended: the keys of create_pipeline(R).port_map are the ports whose
\* InputPort module has an edge in the plot's template, whatever R binds;
\* port_map has one target per such edge, the copy of the edge's destination
\* with the edge's port, and every module id in it is a module of the new
\* version.
C12_PortMapOfTemplate ==
    Compiled =>
        /\ DOMAIN last.ret.port_map
               = {port \in PlotPortNames(last.recipe.plot, FALSE)
                              \cup PlotPortNames(last.recipe.plot, TRUE) :
                      PlotTargets(last.recipe.plot, port) # {}}
        /\ \A port \in DOMAIN last.ret.port_map :
               /\ Len(last.ret.port_map[port])
                      = Cardinality(PlotTargets(last.recipe.plot, port))
               /\ \A c \in PlotTargets(last.recipe.plot, port) :
                      \E i \in DOMAIN last.ret.port_map[port] :
                          /\ last.ret.port_map[port][i].port = c.dport
                          /\ last.ret.port_map[port][i].module \in DOMAIN RetGraph.modules
                          /\ RetGraph.modules[last.ret.port_map[port][i].module].desc
                                 = Plots[last.recipe.plot].subworkflow.modules[c.dst].desc
        /\ PortMapNodesExist

\* a pipeline created from a valid recipe that binds 'aux' and not 'color':
\* port_map has 'color' and lacks 'aux'
C12_Witness ==
    /\ Compiled
    /\ ValidRecipe(last.recipe)
    /\ DOMAIN last.recipe.parameters = {"data", "aux"}
    /\ DOMAIN last.ret.port_map = {"data", "color"}
    /\ Len(last.ret.port_map["data"]) = 2

(***************************************************************************)
(* Commits: what a call adds to the version tree.                          *)
(***************************************************************************)
Raised == Called /\ last.err # "ok"

\* the versions the last call added
NewVersions == DOMAIN vistrail.versions \ DOMAIN last.before.versions

\* the versions that were there before the call are as they were
OldVersionsKept ==
    \A v \in DOMAIN last.before.versions :
        v \in DOMAIN vistrail.versions
            /\ vistrail.versions[v] = last.before.versions[v]

\* C13: when create_pipeline or update_pipeline raises, whatever it had staged,
\* the vistrail has the versions it had before the call, with the same
\* modules and connections, and the client's record is the one it had.
C13_RaiseCommitsNothing ==
    Raised =>
        /\ NewVersions = {}
        /\ vistrail.versions = last.before.versions
        /\ info = last.prior

\* an update raised after it had staged the modules of a new binding
C13_Witness ==
    /\ UpdateCalled
    /\ last.err \in {"KeyError", "TypeError"}
    /\ StagedAdds # {}
    /\ vistrail.idScope.module > last.before.idScope.module

\* the new recipe binds, on some port, a value more or fewer times than the
\* recipe of the prior record
BindingsChanged ==
    \E port \in DOMAIN last.prior.recipe.parameters \cup DOMAIN last.recipe.parameters :
        \E v \in Values(port) :
            Count(Bindings(last.prior.recipe, port), v)
                # Count(Bindings(last.recipe, port), v)

\* the positions of the staged operations of a kind
StagedOps(op) ==
    {i \in DOMAIN generator.operations : generator.operations[i].op = op}

\* C14: a successful create_pipeline, and a successful update_pipeline whose
\* recipe changes a binding, adds exactly one version to the vistrail: the
\* version it returns, whose pipeline is its parent's with all the staged
\* operations performed; the other versions are as they were.
C14_OneCommit ==
    (/\ Called /\ last.err = "ok"
     /\ last.op = "update_pipeline" => BindingsChanged)
    => /\ NewVersions = {last.ret.version}
       /\ vistrail.idScope.version = last.before.idScope.version + 1
       /\ OldVersionsKept
       /\ vistrail.versions[last.ret.version].parent \in DOMAIN last.before.versions
       /\ RetGraph
              = perform_operations(
                    vistrail.versions[vistrail.versions[last.ret.version].parent].pipeline,
                    generator.operations)

\* an update that staged additions and deletions committed them together
C14_Witness ==
    /\ Updated
    /\ BindingsChanged
    /\ StagedOps("add") # {}
    /\ StagedOps("delete") # {}
    /\ NewVersions = {info.version}
    /\ info.version # last.prior.version

\* C15: update_pipeline with a recipe of another plot than the prior record's
\* raises UpdateError; it has staged no operation and taken no id, the
\* vistrail has the versions it had, and the client's record is the prior one.
C15_PlotMismatchRefused ==
    (UpdateCalled /\ last.recipe.plot # last.prior.recipe.plot) =>
        /\ last.err = "UpdateError"
        /\ generator.operations = <<>>
        /\ vistrail.idScope = last.before.idScope
        /\ vistrail.versions = last.before.versions
        /\ info = last.prior

\* a pipeline of 'Line' with bindings was updated to a recipe of 'Bar'
C15_Witness ==
    /\ UpdateCalled
    /\ last.prior.recipe.plot = "Line"
    /\ last.recipe.plot = "Bar"
    /\ DOMAIN last.prior.recipe.parameters # {}
    /\ last.err = "UpdateError"

(***************************************************************************)
(* Types of the variables bound.                                           *)
(***************************************************************************)
\* the bindings of a port in the record the call was given; none for a create
PriorBindings(port) ==
    IF last.op = "update_pipeline" THEN Bindings(last.prior.recipe, port) ELSE <<>>

\* the binding is a variable whose type is not a subtype of the port's type
NeedsCast(plot, port, binding) ==
    /\ binding.type = "VARIABLE"
    /\ port \in DOMAIN name_to_port(Plots[plot])
    /\ ~issubclass(VariableType(binding.variable), name_to_port(Plots[plot])[port].type)

\* the bindings the call has to splice, as <<port, index>>, that need a cast
CastsNeeded ==
    UNION {{<<port, i>> : i \in {j \in DOMAIN last.recipe.parameters[port] :
                /\ NeedsCast(last.recipe.plot, port, last.recipe.parameters[port][j])
                /\ ~Matched(PriorBindings(port), last.recipe.parameters[port], j)}} :
              port \in DOMAIN last.recipe.parameters}

\* the modules of the typecast operation the call staged
CastsStaged ==
    Cardinality({i \in StagedAdds : generator.operations[i].module.desc = "Caster"})

\* C16: create_pipeline, and update_pipeline when it has a binding to add,
\* raises the TypeError of the missing typecast whenever a variable to splice
\* has a type that is not a subtype of the port's type and no typecast was
\* given (the plot being the prior record's); a call whose variables to
\* splice all have a subtype of their port's type applies no typecast.
C16_TypeChecked ==
    Called =>
        /\ (/\ CastsNeeded # {}
            /\ ~last.typecast
            /\ last.op = "update_pipeline" => last.recipe.plot = last.prior.recipe.plot)
           => last.err = "TypeError"
        /\ CastsNeeded = {} => CastsStaged = 0

(***************************************************************************)
(* Order of the bindings.                                                  *)
(***************************************************************************)
\* the descriptors of the modules that splicing a binding on a port stages
BindingDescs(plot, port, binding) ==
    IF binding.type = "CONSTANT" THEN {name_to_port(Plots[plot])[port].type}
    ELSE ({getPipeline(Controller, VarTag(binding.variable)).modules[m].desc :
              m \in DOMAIN getPipeline(Controller, VarTag(binding.variable)).modules}
              \ {"OutputPort"})
         \cup (IF NeedsCast(plot, port, binding) THEN {"Caster"} ELSE {})

\* the group was made for the binding: its modules are those of the binding's
\* subgraph, and hold the binding's value when it is a constant
Realizes(graph, group, plot, port, binding) ==
    /\ group.made # {}
    /\ group.made \subseteq DOMAIN graph.modules
    /\ {graph.modules[m].desc : m \in group.made} = BindingDescs(plot, port, binding)
    /\ binding.type = "CONSTANT" =>
           \A m \in group.made : get_function(graph.modules[m], "value") = binding.constant

\* C18: in the record a successful update returns, each port of the new
\* recipe has one group per binding, and the i-th group is the one made for
\* the i-th binding the new recipe lists on the port, also when the new
\* recipe only reorders the bindings of the prior one.
C18_OrderPreserved ==
    Updated =>
        \A port \in DOMAIN last.recipe.parameters :
            /\ Len(Groups(last.ret, port)) = Len(last.recipe.parameters[port])
            /\ \A i \in DOMAIN last.recipe.parameters[port] :
                   Realizes(RetGraph, last.ret.conn_map[port][i], last.recipe.plot,
                            port, last.recipe.parameters[port][i])

\* C19: the version create_pipeline returns has version 0 as its parent, and
\* its modules and connections are exactly those the call staged, none of
\* them from a version that was there before, whatever version was selected
\* before the call and whatever version the splice of a typecast selected.
C19_CreatedFromRoot ==
    Compiled =>
        /\ vistrail.versions[last.ret.version].parent = 0
        /\ DOMAIN RetGraph.modules = {generator.operations[i].id : i \in StagedAdds}
        /\ DOMAIN RetGraph.modules \cap AllModuleIds(last.before) = {}
        /\ RetGraph.connections
               = {generator.operations[i].conn :
                     i \in {j \in StagedOps("add") :
                               generator.operations[j].what = "connection"}}

\* a pipeline was created with a typecast splice, which selects 'dat-vars'
\* during the call
C19_Witness ==
    /\ Compiled
    /\ CastsStaged > 0
    /\ current_version = last.ret.version
    /\ DOMAIN RetGraph.modules # {}

(***************************************************************************)
(* A client that keeps a stale record: it creates a pipeline, updates it,  *)
(* and then updates again from the record it had before the first update.  *)
(***************************************************************************)
\* recipes of 'Line' on the ports the template wires: A or nothing on
\* 'data', a constant or nothing on 'color'
WiredRecipes ==
    {Recipe(data, color, <<>>, <<>>) :
        data \in {<<>>, <<VariableValue("A")>>},
        color \in {<<>>, <<ConstantValue("red")>>, <<ConstantValue("blue")>>}}

\* update_pipeline(controller, prior, new_recipe, typecast), prior being the
\* record the first update was given
UpdateFromStale(new_recipe, typecast) ==
    /\ pc = "updated"
    /\ last.err = "ok"
    /\ \E order \in Orders(DOMAIN last.prior.recipe.parameters
                            \cup DOMAIN new_recipe.parameters) :
           \E r \in {update_pipeline(Controller, last.prior, new_recipe, typecast, order)} :
               /\ vistrail' = r.controller.vistrail
               /\ current_version' = r.controller.current_version
               /\ generator' = r.generator
               /\ info' = IF r.err = "ok" THEN r.ret ELSE info
               /\ last' = [op |-> "update_pipeline", recipe |-> new_recipe,
                           cell_info |-> [row |-> 0, column |-> 0],
                           typecast |-> typecast, order |-> order,
                           prior |-> last.prior, before |-> vistrail,
                           err |-> r.err, ret |-> r.ret, first |-> last.ret]
               /\ pc' = "updated from stale"
    /\ UNCHANGED manager

NextStale ==
    \/ \E recipe \in WiredRecipes, cell_info \in Cells :
          CreatePipeline(recipe, cell_info, TRUE)
    \/ \E new_recipe \in WiredRecipes : UpdatePipeline(new_recipe, TRUE)
    \/ \E new_recipe \in WiredRecipes : UpdateFromStale(new_recipe, TRUE)

SpecStale == Init /\ [][NextStale]_vars

\* C20: when two updates start from the same version and the first has
\* committed, the commit of the second fails and adds no version, so that no
\* two updates commit children of the same version.
C20_StaleCommitRefused ==
    (/\ pc = "updated from stale"
     /\ last.first.version # last.prior.version
     /\ BindingsChanged)
    => /\ last.err # "ok"
       /\ NewVersions = {}
       /\ \A v, w \in DOMAIN vistrail.versions \ DOMAIN LoadedVistrail.versions :
              (v # w /\ vistrail.versions[v].parent = vistrail.versions[w].parent)
                  => vistrail.versions[v].parent = 0

\* the positions a value has in a list of bindings, in order
Positions(list_, v) == SortedSeq({k \in DOMAIN list_ : list_[k] = v})

\* the nodes the edges of a group leave
Sources(graph, group) ==
    {c.src : c \in {d \in graph.connections : d.id \in Range(group.ids)}}

\* C23: when the old recipe binds a value several times on a port and the new
\* recipe binds it fewer times, the record returned gives the remaining
\* bindings the groups of the earliest old ones, in order, with their nodes
\* and edges still in the graph, and the nodes the edges of the later ones
\* left are deleted.
C23_EarliestKept ==
    Updated =>
        \A port \in DOMAIN last.prior.recipe.parameters :
            \A v \in Range(Bindings(last.prior.recipe, port)) :
                LET olds == Positions(Bindings(last.prior.recipe, port), v)
                    news == Positions(Bindings(last.recipe, port), v)
                IN (Len(olds) >= 2 /\ Len(news) < Len(olds)) =>
                       /\ \A r \in 1..Len(news) :
                              LET was == last.prior.conn_map[port][olds[r]]
                                  group == info.conn_map[port][news[r]]
                              IN /\ Elements(group) = Elements(was)
                                 /\ group.made = was.made
                                 /\ was.made \subseteq DOMAIN NewGraph.modules
                                 /\ Range(was.ids) \subseteq
                                        {c.id : c \in NewGraph.connections}
                       /\ \A r \in Len(news) + 1..Len(olds) :
                              LET was == last.prior.conn_map[port][olds[r]]
                              IN /\ Sources(OldGraph, was) # {}
                                 /\ Sources(OldGraph, was) \cap DOMAIN NewGraph.modules = {}

\* of two bindings of A on 'data' one is left, beside another binding
C23_Witness ==
    /\ Updated
    /\ \E port \in DOMAIN last.prior.recipe.parameters :
           \E v \in Range(Bindings(last.prior.recipe, port)) :
               /\ Len(Positions(Bindings(last.prior.recipe, port), v)) = 2
               /\ Len(Positions(Bindings(last.recipe, port), v)) = 1
               /\ Len(Bindings(last.recipe, port)) = 2
               /\ Sources(OldGraph, last.prior.conn_map[port][2])
                      \cap DOMAIN NewGraph.modules = {}

\* the ids of the modules and the connections the call staged for addition
\* and for deletion
StagedIds(op, what) ==
    {generator.operations[i].id :
        i \in {j \in StagedOps(op) : generator.operations[j].what = what}}

\* C24: the version update_pipeline commits is a child of prior.version, also
\* when the splice of a variable through the typecast selected another
\* version meanwhile; its modules and connections are those of prior.version,
\* plus the staged additions, minus the staged deletions.
C24_CommittedFromPrior ==
    (Updated /\ info.version # last.prior.version)
    => /\ vistrail.versions[info.version].parent = last.prior.version
       /\ DOMAIN NewGraph.modules
              = (DOMAIN OldGraph.modules \cup StagedIds("add", "module"))
                    \ StagedIds("delete", "module")
       /\ {c.id : c \in NewGraph.connections}
              = ({c.id : c \in OldGraph.connections} \cup StagedIds("add", "connection"))
                    \ StagedIds("delete", "connection")
       /\ \A c \in NewGraph.connections :
              c \in OldGraph.connections
              \/ \E i \in StagedOps("add") : generator.operations[i].conn = c

\* a variable went through the typecast while another binding was removed
C24_Witness ==
    /\ Updated
    /\ info.version # last.prior.version
    /\ CastsStaged > 0
    /\ StagedIds("delete", "module") # {}
    /\ vistrail.versions[info.version].parent = last.prior.version
    /\ last.prior.version # vistrail.tags["dat-vars"]

(***************************************************************************)
(* A cell edited several times: each update starts from the record the     *)
(* client holds, which is the one the last successful call returned.       *)
(***************************************************************************)
MaxUpdates == 2   \* calls of update_pipeline on one cell

SequenceRecipes ==
    {Recipe(data, color, <<>>, <<>>) :
        data \in {<<VariableValue("A")>>, <<VariableValue("B")>>,
                  <<VariableValue("A"), VariableValue("A")>>,
                  <<VariableValue("A"), VariableValue("B")>>},
        color \in {<<>>, <<ConstantValue("red")>>}}

\* info = update_pipeline(controller, info, new_recipe, typecast), again;
\* compiled is the record create_pipeline returned, updates counts the calls
UpdateAgain(new_recipe, typecast) ==
    /\ pc \in {"updated", "updated again"}
    /\ (IF pc = "updated" THEN 1 ELSE last.updates) < MaxUpdates
    /\ \E order \in Orders(DOMAIN info.recipe.parameters
                            \cup DOMAIN new_recipe.parameters) :
           \E r \in {update_pipeline(Controller, info, new_recipe, typecast, order)} :
               /\ vistrail' = r.controller.vistrail
               /\ current_version' = r.controller.current_version
               /\ generator' = r.generator
               /\ info' = IF r.err = "ok" THEN r.ret ELSE info
               /\ last' = [op |-> "update_pipeline", recipe |-> new_recipe,
                           cell_info |-> [row |-> 0, column |-> 0],
                           typecast |-> typecast, order |-> order, prior |-> info,
                           before |-> vistrail, err |-> r.err, ret |-> r.ret,
                           compiled |-> IF pc = "updated" THEN last.prior
                                        ELSE last.compiled,
                           updates |-> IF pc = "updated" THEN 2
                                       ELSE last.updates + 1]
               /\ pc' = "updated again"
    /\ UNCHANGED manager

NextSequence ==
    \/ \E recipe \in SequenceRecipes, cell_info \in Cells :
          CreatePipeline(recipe, cell_info, TRUE)
    \/ \E new_recipe \in SequenceRecipes : UpdatePipeline(new_recipe, TRUE)
    \/ \E new_recipe \in SequenceRecipes : UpdateAgain(new_recipe, TRUE)

SpecSequence == Init /\ [][NextSequence]_vars

\* the record create_pipeline returned for the cell
CompiledRecord ==
    IF pc = "compiled" THEN info
    ELSE IF pc = "updated" THEN last.prior
    ELSE last.compiled

\* the nodes of a record that no group of its conn_map made
NodesOutsideGroups(record) ==
    DOMAIN vistrail.versions[record.version].pipeline.modules
        \ UNION {record.conn_map[k[1]][k[2]].made : k \in GroupKeys(record)}

\* C25: whatever updates followed create_pipeline, the graph of the record
\* held has every node of the plot's part of the compiled graph and every
\* node made for a binding the record still has, port_map is the compiled
\* record's, and each of its (node, port) pairs names a node of that graph.
C25_PlotAndBindingsKept ==
    pc \in {"compiled", "updated", "updated again"}
    => /\ NodesOutsideGroups(CompiledRecord) \subseteq DOMAIN NewGraph.modules
       /\ \A k \in GroupKeys(info) :
              info.conn_map[k[1]][k[2]].made \subseteq DOMAIN NewGraph.modules
       /\ info.port_map = CompiledRecord.port_map
       /\ \A port \in DOMAIN info.port_map :
              \A t \in Range(info.port_map[port]) : t.module \in DOMAIN NewGraph.modules

\* a second update removed a binding from a record that kept another
C25_Witness ==
    /\ pc = "updated again"
    /\ last.err = "ok"
    /\ info.version # last.prior.version
    /\ last.prior.version # last.compiled.version
    /\ StagedIds("delete", "module") # {}
    /\ GroupKeys(info) # {}
    /\ DOMAIN info.port_map # {}

(***************************************************************************)
(* The Manager's variable registry (manager.py:163-216), the variables it  *)
(* stores (vistrails_interface.py:155-188, 313-340) and unique_varname     *)
(* (gui/load_variable_dialog.py:10-31).                                    *)
(***************************************************************************)
\* Variable.VariableInformation(name, controller, type); id stands for the
\* identity of the object, which is what the reverse dict hashes
VariableInformation(name, type, id) == [name |-> name, type |-> type, id |-> id]

\* None, where a VariableInformation is expected
NoVariable == VariableInformation("", "", -1)

\* a call of an observer's callback: which one, of which observer, with which
\* name, and the names registered at that moment
Notification(callback, obs, varname, mgr) ==
    [callback |-> callback, obs |-> obs.id, varname |-> varname,
     registry |-> DOMAIN mgr.variables]

\* what a method of the Manager leaves: the controller, the manager, the
\* observers' callbacks it called, and the exception it raised if any
ManagerResult(controller, mgr, notified, err) ==
    [controller |-> controller, manager |-> mgr, notified |-> notified, err |-> err]

\* "for obs in self._variable_observers: if obs[i] is not None: obs[i](varname)",
\* the set yielding the observers in the given order
notify(mgr, callback, varname, order) ==
    [i \in 1..Len(SelectSeq(order, LAMBDA obs : obs[callback])) |->
        Notification(callback, SelectSeq(order, LAMBDA obs : obs[callback])[i],
                     varname, mgr)]

\* Variable.perform_operations(name); ret is the VariableInformation
Variable_perform_operations(controller, variable, name) ==
    IF variable.output.module = -1
    THEN Result(controller, variable.generator, NoVariable, "ValueError")
    ELSE Bind(get_variables_root(controller),
              LAMBDA at_root :
                  Bind(connect_modules(
                           at_root, variable.generator,
                           variable.output.module, variable.output.port,
                           CHOOSE out_mod \in DOMAIN current_pipeline(at_root).modules : TRUE,
                           "InternalPipe"),
                       LAMBDA wired :
                           Bind(perform_action(
                                    wired.controller,
                                    update_function(
                                        wired.generator,
                                        CHOOSE out_mod \in DOMAIN current_pipeline(at_root).modules : TRUE,
                                        "spec", variable.type)),
                                LAMBDA done :
                                    IF done.err # "ok"
                                    THEN Result(done.controller, done.generator,
                                                NoVariable, done.err)
                                    ELSE Result(
                                             [done.controller EXCEPT
                                                  !.vistrail.tags =
                                                      Put(@, VarTag(name), done.ret)],
                                             done.generator,
                                             VariableInformation(name, variable.type,
                                                                 done.ret),
                                             "ok"))))

\* Manager._add_variable(varname, variable)
add_variable(controller, mgr, varname, variable, order) ==
    IF varname \in DOMAIN mgr.variables
    THEN ManagerResult(controller, mgr, <<>>, "ValueError")
    ELSE Bind([mgr EXCEPT !.variables = Put(@, varname, variable),
                          !.variables_reverse = Put(@, variable.id, varname)],
              LAMBDA added :
                  ManagerResult(controller, added,
                                notify(added, "added", varname, order), "ok"))

\* Manager.new_variable(varname, variable)
new_variable(controller, mgr, varname, variable, order) ==
    Bind(Variable_perform_operations(controller, variable, varname),
         LAMBDA materialized :
             IF materialized.err # "ok"
             THEN ManagerResult(materialized.controller, mgr, <<>>, materialized.err)
             ELSE add_variable(materialized.controller, mgr, varname,
                               materialized.ret, order))

\* Manager.get_variable(varname): self._variables.get(varname)
get_variable(mgr, varname) ==
    IF varname \in DOMAIN mgr.variables THEN mgr.variables[varname] ELSE NoVariable

\* VariableInformation.remove(): prunes the version tagged with the name the
\* object holds; the pruned version and its tag leave the tree, and the
\* selection moves to its parent when it was selected
VariableInformation_remove(controller, variable) ==
    IF VarTag(variable.name) \notin DOMAIN controller.vistrail.tags
    THEN [controller |-> controller, err |-> "KeyError"]
    ELSE Bind(controller.vistrail.tags[VarTag(variable.name)],
              LAMBDA version :
                  [controller |->
                       [vistrail |->
                            [controller.vistrail EXCEPT
                                 !.versions = Drop(@, {version}),
                                 !.tags = Drop(@, {t \in DOMAIN @ : @[t] = version})],
                        current_version |->
                            IF controller.current_version = version
                            THEN controller.vistrail.versions[version].parent
                            ELSE controller.current_version],
                   err |-> "ok"])

\* VariableInformation.rename, called with the positional arguments args: the
\* method takes one, new_varname; ret is the object afterwards
VariableInformation_rename(controller, variable, args) ==
    IF Len(args) # 1
    THEN [controller |-> controller, ret |-> variable, err |-> "TypeError"]
    ELSE IF VarTag(variable.name) \notin DOMAIN controller.vistrail.tags
    THEN [controller |-> controller, ret |-> variable, err |-> "KeyError"]
    ELSE [controller |->
              [controller EXCEPT
                   !.vistrail.tags =
                       Put(Drop(@, {t \in DOMAIN @ : @[t] = @[VarTag(variable.name)]}),
                           VarTag(args[1]), @[VarTag(variable.name)])],
          ret |-> [variable EXCEPT !.name = args[1]],
          err |-> "ok"]

\* Manager.remove_variable(varname)
remove_variable(controller, mgr, varname, order) ==
    IF varname \notin DOMAIN mgr.variables
    THEN ManagerResult(controller, mgr, notify(mgr, "removed", varname, order),
                       "KeyError")
    ELSE Bind(VariableInformation_remove(controller, mgr.variables[varname]),
              LAMBDA removed :
                  IF removed.err # "ok"
                  THEN ManagerResult(removed.controller,
                                     [mgr EXCEPT !.variables = Drop(@, {varname})],
                                     notify(mgr, "removed", varname, order),
                                     removed.err)
                  ELSE ManagerResult(
                           removed.controller,
                           [mgr EXCEPT
                                !.variables = Drop(@, {varname}),
                                !.variables_reverse =
                                    Drop(@, {mgr.variables[varname].id})],
                           notify(mgr, "removed", varname, order),
                           IF mgr.variables[varname].id \in DOMAIN mgr.variables_reverse
                           THEN "ok" ELSE "KeyError"))

\* Manager.rename_variable(old_varname, new_varname), lines 206-208: the
\* registry once the variable is moved to its new name
rv_moved(mgr, old_varname, new_varname) ==
    [mgr EXCEPT
         !.variables = Put(Drop(@, {old_varname}), new_varname, mgr.variables[old_varname]),
         !.variables_reverse = Put(@, mgr.variables[old_varname].id, new_varname)]

\* Manager.rename_variable(old_varname, new_varname)
rename_variable(controller, mgr, old_varname, new_varname, order) ==
    IF old_varname \notin DOMAIN mgr.variables
    THEN ManagerResult(controller, mgr, notify(mgr, "removed", old_varname, order),
                       "KeyError")
    ELSE IF mgr.variables[old_varname].id \notin DOMAIN mgr.variables_reverse
    THEN ManagerResult(controller, [mgr EXCEPT !.variables = Drop(@, {old_varname})],
                       notify(mgr, "removed", old_varname, order), "KeyError")
    ELSE Bind(VariableInformation_rename(controller, mgr.variables[old_varname],
                                         <<old_varname, new_varname>>),
              LAMBDA renamed :
                  IF renamed.err # "ok"
                  THEN ManagerResult(renamed.controller,
                                     rv_moved(mgr, old_varname, new_varname),
                                     notify(mgr, "removed", old_varname, order),
                                     renamed.err)
                  ELSE Bind([rv_moved(mgr, old_varname, new_varname) EXCEPT
                                 !.variables[new_varname] = renamed.ret],
                            LAMBDA moved :
                                ManagerResult(
                                    renamed.controller, moved,
                                    notify(mgr, "removed", old_varname, order)
                                    \o notify(moved, "added", new_varname, order),
                                    "ok")))


\* A str is a sequence of characters where the code looks into it; Join
\* gives the str itself, which is what the registry is keyed by.
RECURSIVE Join(_)
Join(chars) == IF chars = <<>> THEN "" ELSE Head(chars) \o Join(Tail(chars))

RECURSIVE int_of_digits(_)
\* int(s) for a str of digits
int_of_digits(chars) ==
    IF chars = <<>> THEN 0
    ELSE 10 * int_of_digits(SubSeq(chars, 1, Len(chars) - 1)) + int(chars[Len(chars)])

RECURSIVE format_d(_)
\* '%d' % num
format_d(num) ==
    IF num < 10 THEN <<str(num)>> ELSE format_d(num \div 10) \o <<str(num % 10)>>

\* the characters [0-9]+ matches
is_digits(chars) == chars # <<>> /\ \A i \in DOMAIN chars : chars[i] \in Range(Digits)

\* _varname_format.match(varname) for '^(.+) \(([0-9]+)\)$': <<group(1),
\* group(2)>>, or <<>> for None; the greedy (.+) takes the longest prefix
varname_format_match(varname) ==
    LET ends == {i \in 1..Len(varname) - 4 :
                    /\ varname[i + 1] = " "
                    /\ varname[i + 2] = "("
                    /\ is_digits(SubSeq(varname, i + 3, Len(varname) - 1))
                    /\ varname[Len(varname)] = ")"}
    IN IF ends = {} THEN <<>>
       ELSE LET i == CHOOSE e \in ends : \A o \in ends : o <= e
            IN <<SubSeq(varname, 1, i), SubSeq(varname, i + 3, Len(varname) - 1)>>

\* unique_varname, lines 22-26: the name and the number the loop starts with
uv_start(varname) ==
    LET match == varname_format_match(varname)
    IN IF match = <<>> THEN [varname |-> varname, num |-> 1]
       ELSE [varname |-> match[1], num |-> int_of_digits(match[2])]

\* '%s (%d)' % (varname, num)
uv_format(varname, num) == varname \o <<" ", "(">> \o format_d(num) \o <<")">>

uv_free_always(mgr, new_varname) == TRUE

\* "dat.manager.Manager().get_variable(new_varname) is None"
uv_free(mgr, new_varname) == get_variable(mgr, Join(new_varname)) = NoVariable

(***************************************************************************)
(* The variable dialog: variables are registered under the names the user  *)
(* types, and unique_varname proposes a name that is not taken.            *)
(***************************************************************************)
MaxVariables == 2   \* calls of Manager.new_variable

\* (variable_added, variable_removed) tuples; FALSE is None
Callbacks ==
    {[id |-> 1, added |-> TRUE, removed |-> TRUE],
     [id |-> 2, added |-> FALSE, removed |-> TRUE]}

\* the names typed in the dialog
Numbered(base, digits) == base \o <<" ", "(">> \o digits \o <<")">>

TypedNames ==
    {<<"v">>, <<"v", "(", "1", ")">>, <<"v", " ", "(", "1">>, <<"v", " ", "(", ")">>,
     <<" ", "(", "1", ")">>, Numbered(Numbered(<<"v">>, <<"1">>), <<"2">>)}
    \cup {Numbered(<<"v">>, d) :
            d \in {<<"1">>, <<"2">>, <<"3">>, <<"9">>, <<"1", "0">>, <<"0", "1">>}}

\* the Manager once the given observers are registered (add_variable_observer),
\* on the vistrail that holds A and B
InitObserved(observers) ==
    /\ vistrail = LoadedVistrail
    /\ current_version = 1
    /\ generator = PipelineGenerator(Controller)
    /\ info = NoInfo
    /\ last = [op |-> "none"]
    /\ manager = [Manager EXCEPT !.variable_observers = observers]
    /\ pc = "idle"

\* the dialog alone, nothing observing the registry
InitNames == InitObserved({})

\* the calls of Manager.new_variable so far: each commits one version
Registrations == vistrail.idScope.version - LoadedVistrail.idScope.version

\* Manager.new_variable(varname, variable), the variable being a copy of A or
\* B (Variable.from_pipeline); the set of observers yields them in any order
NewVariable(varname, source) ==
    /\ pc = "idle"
    /\ Registrations < MaxVariables
    /\ \E order \in Orders(manager.variable_observers) :
           \E r \in {Bind(from_pipeline(Controller, source),
                          LAMBDA loaded :
                              new_variable(loaded.controller, manager, varname,
                                           loaded.ret, order))} :
               /\ vistrail' = r.controller.vistrail
               /\ current_version' = r.controller.current_version
               /\ manager' = r.manager
               /\ last' = [op |-> "new_variable", varname |-> varname,
                           before |-> vistrail, registry |-> manager,
                           notified |-> r.notified, err |-> r.err]
    /\ UNCHANGED <<generator, info, pc>>

\* unique_varname(varname), up to the loop
UniqueVarname(varname) ==
    /\ pc = "idle"
    /\ last' = [op |-> "unique_varname", arg |-> varname,
                varname |-> uv_start(varname).varname,
                num |-> uv_start(varname).num, ret |-> <<>>]
    /\ pc' = "unique_varname"
    /\ UNCHANGED <<vistrail, current_version, generator, info, manager>>

\* unique_varname, one turn of the loop (lines 28-31)
UniqueVarnameLoop ==
    /\ pc = "unique_varname"
    /\ \E new_varname \in {uv_format(last.varname, last.num + 1)} :
           IF uv_free(manager, new_varname)
           THEN /\ last' = [last EXCEPT !.num = @ + 1, !.ret = new_varname]
                /\ pc' = "returned"
           ELSE /\ last' = [last EXCEPT !.num = @ + 1]
                /\ pc' = pc
    /\ UNCHANGED <<vistrail, current_version, generator, info, manager>>

NextNames ==
    \/ \E varname \in TypedNames : NewVariable(Join(varname), "A")
    \/ \E varname \in TypedNames : UniqueVarname(varname)
    \/ UniqueVarnameLoop

SpecNames == InitNames /\ [][NextNames]_vars

\* unique_varname runs to its return once called
FairSpecNames == SpecNames /\ WF_vars(UniqueVarnameLoop)

(***************************************************************************)
(* Properties of unique_varname.                                           *)
(***************************************************************************)
UniqueReturned == pc = "returned" /\ last.op = "unique_varname"

\* where the trailing ' (n)' of name starts, n being a string of digits, when
\* at least `least` characters come before it
SuffixStarts(name, least) ==
    {i \in least + 1..Len(name) - 3 :
        /\ name[i] = " "
        /\ name[i + 1] = "("
        /\ is_digits(SubSeq(name, i + 2, Len(name) - 1))
        /\ name[Len(name)] = ")"}

\* name without its trailing ' (n)', and n (1 without suffix)
BaseOf(name, least) ==
    IF SuffixStarts(name, least) = {} THEN name
    ELSE SubSeq(name, 1, (CHOOSE i \in SuffixStarts(name, least) : TRUE) - 1)

NumberOf(name, least) ==
    IF SuffixStarts(name, least) = {} THEN 1
    ELSE int_of_digits(SubSeq(name, (CHOOSE i \in SuffixStarts(name, least) : TRUE) + 2,
                              Len(name) - 1))

Taken(name) == Join(name) \in DOMAIN manager.variables

\* 'base (k)' for the smallest k above the number of name that is not taken
SmallestFree(name, least) ==
    LET base == BaseOf(name, least)
        n == NumberOf(name, least)
        free == {k \in n + 1..n + 1 + Cardinality(DOMAIN manager.variables) :
                    ~Taken(Numbered(base, format_d(k)))}
    IN Numbered(base, format_d(CHOOSE k \in free : \A j \in free : k <= j))

C21_Returns == UniqueReturned => ~Taken(last.ret) /\ last.ret = SmallestFree(last.arg, 1)

\* C21: unique_varname(name) returns 'base (k)', a name the registry does not
\* hold, base being name without its trailing ' (n)' when something comes
\* before that suffix (name itself otherwise, with n = 1), and k the smallest
\* integer above n whose name is free; the call returns, the registry being
\* finite.
C21_UniqueName == []C21_Returns /\ ((pc = "unique_varname") ~> (pc = "returned"))

\* C21 as stated: a name that is nothing but ' (n)' counts as suffixed, with
\* an empty base.
C21_AsStated == UniqueReturned => last.ret = SmallestFree(last.arg, 0)

\* a suffixed name whose successor was taken: the loop went past it
C21_Witness ==
    /\ UniqueReturned
    /\ SuffixStarts(last.arg, 1) # {}
    /\ Taken(Numbered(last.varname, format_d(NumberOf(last.arg, 1) + 1)))
    /\ last.num > NumberOf(last.arg, 1) + 1

(***************************************************************************)
(* The registry under the calls of its clients: variables are registered,  *)
(* removed and renamed while observers listen.                             *)
(***************************************************************************)
RegistryNames == {"a", "b"}

InitManager == \E observers \in SUBSET Callbacks : InitObserved(observers)

\* Manager.remove_variable(varname)
RemoveVariable(varname) ==
    /\ pc = "idle"
    /\ \E order \in Orders(manager.variable_observers) :
           \E r \in {remove_variable(Controller, manager, varname, order)} :
               /\ vistrail' = r.controller.vistrail
               /\ current_version' = r.controller.current_version
               /\ manager' = r.manager
               /\ last' = [op |-> "remove_variable", varname |-> varname,
                           before |-> vistrail, registry |-> manager,
                           notified |-> r.notified, err |-> r.err]
    /\ UNCHANGED <<generator, info, pc>>

\* Manager.rename_variable(old_varname, new_varname)
RenameVariable(old_varname, new_varname) ==
    /\ pc = "idle"
    /\ \E order \in Orders(manager.variable_observers) :
           \E r \in {rename_variable(Controller, manager, old_varname, new_varname,
                                     order)} :
               /\ vistrail' = r.controller.vistrail
               /\ current_version' = r.controller.current_version
               /\ manager' = r.manager
               /\ last' = [op |-> "rename_variable", varname |-> old_varname,
                           new_varname |-> new_varname,
                           before |-> vistrail, registry |-> manager,
                           notified |-> r.notified, err |-> r.err]
    /\ UNCHANGED <<generator, info, pc>>

NextManager ==
    \/ \E varname \in RegistryNames : NewVariable(varname, "A")
    \/ \E varname \in RegistryNames : RemoveVariable(varname)
    \/ \E old_varname, new_varname \in RegistryNames :
          RenameVariable(old_varname, new_varname)

SpecManager == InitManager /\ [][NextManager]_vars

(***************************************************************************)
(* Properties of the registry.                                             *)
(***************************************************************************)
ManagerCalled(op) == last.op = op

\* the observers that have the given callback
Listening(callback) == {obs \in manager.variable_observers : obs[callback]}

\* the calls of a callback with a name, and the names registered at each
Heard(callback, varname) ==
    {n \in Range(last.notified) : n.callback = callback /\ n.varname = varname}

\* C22: rename_variable(old, new) on a registered variable calls the removal
\* callback of every observer with old while the registry is as before, calls
\* the addition callback of every observer with new once the registry is
\* changed, and returns with new registered for the variable and old gone.
C22_RenameNotifies ==
    (ManagerCalled("rename_variable") /\ last.varname \in DOMAIN last.registry.variables)
    => /\ {n.obs : n \in Heard("removed", last.varname)}
              = {obs.id : obs \in Listening("removed")}
       /\ \A n \in Heard("removed", last.varname) :
              n.registry = DOMAIN last.registry.variables
       /\ {n.obs : n \in {h \in Heard("added", last.new_varname) :
                            h.registry = DOMAIN manager.variables}}
              = {obs.id : obs \in Listening("added")}
       /\ last.err = "ok"
              => /\ last.new_varname \in DOMAIN manager.variables
                 /\ manager.variables[last.new_varname].id
                        = last.registry.variables[last.varname].id
                 /\ last.varname # last.new_varname
                        => last.varname \notin DOMAIN manager.variables

\* C29: new_variable with a name that is already registered raises, calls no
\* observer, leaves the registry as it was, and leaves the vistrail without
\* new version and with the tags it had.
C29_DuplicateRefused ==
    (ManagerCalled("new_variable") /\ last.varname \in DOMAIN last.registry.variables)
    => /\ last.err # "ok"
       /\ last.notified = <<>>
       /\ manager = last.registry
       /\ DOMAIN vistrail.versions = DOMAIN last.before.versions
       /\ vistrail.tags = last.before.tags

\* C30: whatever calls of new_variable, remove_variable and rename_variable
\* were made, the dict of the names and the dict of the variables are inverse
\* bijections of each other.
C30_InverseMaps ==
    /\ \A varname \in DOMAIN manager.variables :
           /\ manager.variables[varname].id \in DOMAIN manager.variables_reverse
           /\ manager.variables_reverse[manager.variables[varname].id] = varname
    /\ \A id \in DOMAIN manager.variables_reverse :
           /\ manager.variables_reverse[id] \in DOMAIN manager.variables
           /\ manager.variables[manager.variables_reverse[id]].id = id

\* How often each label occurs among the modules, and each labelled edge
\* among the connections, of a graph: two graphs that are equal up to a
\* renaming of the module and connection ids have the same census.
LabelOf(graph, m) ==
    IF m \in DOMAIN graph.modules THEN graph.modules[m] ELSE Module("", EmptyFn)

EdgeLabel(graph, c) ==
    [src |-> LabelOf(graph, c.src), sport |-> c.sport,
     dst |-> LabelOf(graph, c.dst), dport |-> c.dport]

Census(graph) ==
    [modules |->
         [l \in Range(graph.modules) |->
             Cardinality({m \in DOMAIN graph.modules : graph.modules[m] = l})],
     connections |->
         [l \in {EdgeLabel(graph, c) : c \in graph.connections} |->
             Cardinality({c \in graph.connections : EdgeLabel(graph, c) = l})]]

\* the ports of a connection map, the number of groups of each and the kind
\* and the length of each group
ConnMapShape(conn_map) ==
    [port \in DOMAIN conn_map |->
        [i \in DOMAIN conn_map[port] |->
            [kind |-> conn_map[port][i].kind, ids |-> Len(conn_map[port][i].ids)]]]

\* update_pipeline has returned a record for a recipe over the plot of the
\* record it was given
UpdateReturned ==
    /\ pc = "updated"
    /\ last.err = "ok"
    /\ last.prior.recipe.plot = last.recipe.plot

\* C28: the graph of the version update_pipeline(create_pipeline(R1), R2)
\* returns equals, up to a renaming of the module and connection ids, the
\* graph create_pipeline(R2) builds for the same cell, and the connection
\* maps of the two records have the same shape.
C28_UpdateIsCreate ==
    UpdateReturned =>
        \E order \in Orders(DOMAIN last.recipe.parameters) :
            \E r \in {create_pipeline([vistrail |-> last.before, current_version |-> 0],
                                      last.recipe, CHOOSE cell_info \in Cells : TRUE,
                                      last.typecast, order)} :
                r.err = "ok"
                => /\ Census(vistrail.versions[last.ret.version].pipeline)
                          = Census(r.controller.vistrail.versions[r.ret.version].pipeline)
                   /\ ConnMapShape(last.ret.conn_map) = ConnMapShape(r.ret.conn_map)

(***************************************************************************)
(* Exploring delete_linked on its own: a client holds a generator on a     *)
(* pipeline of MaxModules modules and calls it once, with any seeds,       *)
(* filters and depth, then commits.                                        *)
(***************************************************************************)
NoCall == [op |-> "none"]

DLModules == 1..MaxModules

\* a ring over the modules plus a second connection between modules 1 and 2
DLCandidates ==
    {Connection(i, i, "out", (i % MaxModules) + 1, "in") : i \in DLModules}
    \cup {Connection(MaxModules + 1, 1, "out2", 2, "in2")}

DLVistrail(conns) ==
    [versions |->
         (0 :> [parent |-> 0, pipeline |-> EmptyPipeline])
         @@ (1 :> [parent |-> 0,
                   pipeline |-> [modules |-> [m \in DLModules |-> Module("Module", EmptyFn)],
                                 connections |-> conns]]),
     tags |-> EmptyFn,
     idScope |-> [module |-> MaxModules + 1, connection |-> MaxModules + 2,
                  version |-> 2]]

InitDL ==
    /\ \E conns \in SUBSET DLCandidates : vistrail = DLVistrail(conns)
    /\ current_version = 1
    /\ generator = PipelineGenerator(Controller)
    /\ info = NoInfo
    /\ last = NoCall
    /\ pc = "fresh"
    /\ manager = Manager

\* the always-true filter and the filters that reject one element of S
Filters(S) == {AlwaysTrue} \cup {Rejecting({x}) : x \in S}

\* every depth short of the longest path, and the default
Depths == (0..(MaxModules - 1)) \cup {maxint}

\* generator.delete_linked(modules, module_filter=, connection_filter=, depth=)
DLCall(modules, module_filter, connection_filter, depth) ==
    /\ pc = "fresh"
    /\ generator' = gen_delete_linked(Controller, generator, modules,
                                      module_filter, connection_filter, depth)
    /\ last' = [op |-> "delete_linked", modules |-> modules,
                module_filter |-> module_filter,
                connection_filter |-> connection_filter, depth |-> depth,
                ret |-> delete_linked(Controller, modules, generator.operations,
                                      module_filter, connection_filter, depth).ret]
    /\ pc' = "staged"
    /\ UNCHANGED <<vistrail, current_version, info>>
    /\ UNCHANGED manager

\* generator.perform_action()
DLPerform ==
    /\ pc \in {"staged", "restaged"}
    /\ LET r == perform_action(Controller, generator)
       IN /\ vistrail' = r.controller.vistrail
          /\ current_version' = r.controller.current_version
          /\ generator' = r.generator
          /\ pc' = IF r.err = "ok" THEN "done" ELSE "raised"
    /\ UNCHANGED <<info, last>>
    /\ UNCHANGED manager

NextDL ==
    \/ \E modules \in SUBSET DLModules,
          module_filter \in Filters(DLModules),
          connection_filter \in Filters(current_pipeline(Controller).connections),
          depth \in Depths :
            DLCall(modules, module_filter, connection_filter, depth)
    \/ DLPerform

SpecDL == InitDL /\ [][NextDL]_vars

(***************************************************************************)
(* Repeated calls on one generator before the commit: delete_linked with   *)
(* the default filters and depth, or delete_modules.                       *)
(***************************************************************************)
RepeatCall(modules, depth) ==
    /\ pc \in {"fresh", "staged"}
    /\ generator' = gen_delete_linked(Controller, generator, modules,
                                      AlwaysTrue, AlwaysTrue, depth)
    /\ last' = [op |-> "delete_linked", modules |-> modules,
                module_filter |-> AlwaysTrue,
                connection_filter |-> AlwaysTrue, depth |-> depth,
                ret |-> delete_linked(Controller, modules, generator.operations,
                                      AlwaysTrue, AlwaysTrue, depth).ret]
    /\ pc' = IF pc = "fresh" THEN "staged" ELSE "restaged"
    /\ UNCHANGED <<vistrail, current_version, info>>
    /\ UNCHANGED manager

NextRepeat ==
    \/ \E modules \in SUBSET DLModules, depth \in {0, maxint} :
            RepeatCall(modules, depth)
    \/ DLPerform

SpecRepeat == InitDL /\ [][NextRepeat]_vars


(***************************************************************************)
(* Exploring the splicers on their own: a template made of an InputPort,   *)
(* a module and up to two OutputPort modules is spliced once, as the       *)
(* pipeline of a variable into the pipeline of a cell, or as the           *)
(* subworkflow of an operation applied to the variable A.                  *)
(***************************************************************************)
\* the connections a template may have: into the module, from the module to
\* an OutputPort, and from the InputPort straight to an OutputPort
TemplateCandidates ==
    {Connection(1, 1, "InternalPipe", 2, "in"),
     Connection(2, 2, "out", 3, "InternalPipe"),
     Connection(3, 2, "out", 4, "InternalPipe"),
     Connection(4, 1, "InternalPipe", 3, "InternalPipe"),
     Connection(5, 1, "InternalPipe", 4, "InternalPipe"),
     Connection(6, 2, "out", 5, "in"),
     Connection(7, 1, "InternalPipe", 5, "aux")}

Template(outs, conns) ==
    [modules |-> [m \in {1, 2, 5} \cup outs |->
                     IF m = 1 THEN Module("InputPort", [name |-> "input"])
                     ELSE IF m = 2 THEN Module("Worker", EmptyFn)
                     ELSE IF m = 5 THEN Module("Filter", EmptyFn)
                     ELSE OutputPortModule],
     connections |-> conns]

Templates ==
    UNION {{Template(outs, conns) :
               conns \in SUBSET {c \in TemplateCandidates : c.dst \in {2, 5} \cup outs}} :
              outs \in SUBSET {3, 4}}

\* the loaded vistrail plus the template (version 4) and the pipeline of a
\* cell with one module (version 5)
SpliceVistrail(template) ==
    [LoadedVistrail EXCEPT
         !.versions = Put(Put(@, 4, [parent |-> 0, pipeline |-> template]),
                          5, [parent |-> 0,
                              pipeline |-> [modules |-> (5 :> Module("Plotter", EmptyFn)),
                                            connections |-> {}]]),
         !.tags = Put(@, "template", 4),
         !.idScope = [module |-> 6, connection |-> 6, version |-> 6]]

InitSplice ==
    /\ \E template \in Templates : vistrail = SpliceVistrail(template)
    /\ current_version = 5
    /\ generator = PipelineGenerator(Controller)
    /\ info = NoInfo
    /\ last = NoCall
    /\ pc = "fresh"
    /\ manager = Manager

\* add_variable_subworkflow(generator, template, plot_ports)
SpliceVariable(plot_ports) ==
    /\ pc = "fresh"
    /\ \E r \in {add_variable_subworkflow(Controller, generator,
                                          getPipeline(Controller, "template"),
                                          plot_ports)} :
           /\ vistrail' = r.controller.vistrail
           /\ current_version' = r.controller.current_version
           /\ generator' = r.generator
           /\ last' = [op |-> "add_variable_subworkflow", plot_ports |-> plot_ports,
                       err |-> r.err, ret |-> r.ret]
    /\ pc' = "spliced"
    /\ UNCHANGED info
    /\ UNCHANGED manager

\* apply_operation_subworkflow(controller, op, template, [A]), A being loaded
\* with Variable.from_pipeline
SpliceOperation ==
    /\ pc = "fresh"
    /\ \E r \in {Bind(from_pipeline(Controller, "A"),
                      LAMBDA arg :
                          apply_operation_subworkflow(
                              arg.controller, "Array",
                              getPipeline(Controller, "template"), arg.ret))} :
           /\ vistrail' = r.controller.vistrail
           /\ current_version' = r.controller.current_version
           /\ generator' = r.generator
           /\ last' = [op |-> "apply_operation_subworkflow", plot_ports |-> None,
                       err |-> r.err, ret |-> r.ret.output]
    /\ pc' = "spliced"
    /\ UNCHANGED info
    /\ UNCHANGED manager

\* create_pipeline(controller, recipe, cell_info) for a recipe that binds
\* nothing: the plot's template is spliced alone
SplicePlot(plot, cell_info) ==
    /\ pc = "fresh"
    /\ \E r \in {create_pipeline(Controller, [plot |-> plot, parameters |-> EmptyFn],
                                  cell_info, TRUE, <<>>)} :
           /\ vistrail' = r.controller.vistrail
           /\ current_version' = r.controller.current_version
           /\ generator' = r.generator
           /\ last' = [op |-> "create_pipeline",
                       recipe |-> [plot |-> plot, parameters |-> EmptyFn],
                       cell_info |-> cell_info, err |-> r.err, ret |-> r.ret]
    /\ pc' = "plotted"
    /\ UNCHANGED <<info, manager>>

\* get_pipeline_location(controller, pipelineInfo) on the record returned
LocatePlot ==
    /\ pc = "plotted"
    /\ last.err = "ok"
    /\ last' = last @@ [location |-> get_pipeline_location(Controller, last.ret)]
    /\ pc' = "located"
    /\ UNCHANGED <<vistrail, current_version, generator, info, manager>>

NextSplice ==
    \/ \E plot_ports \in {None, <<PlotPort(5, "data")>>} : SpliceVariable(plot_ports)
    \/ SpliceOperation
    \/ \E plot \in DOMAIN Plots, cell_info \in Cells : SplicePlot(plot, cell_info)
    \/ LocatePlot

SpecSplice == InitSplice /\ [][NextSplice]_vars

\* the template that was spliced
SplicedTemplate == vistrail.versions[4].pipeline

\* the output-boundary markers of a template
OutputMarkers(template) ==
    {m \in DOMAIN template.modules : template.modules[m].desc = "OutputPort"}

\* not exactly one output-boundary marker, or an edge from an input-boundary
\* marker straight to an output-boundary marker
Malformed(template) ==
    \/ Cardinality(OutputMarkers(template)) # 1
    \/ \E c \in template.connections :
           /\ template.modules[c.src].desc = "InputPort"
           /\ c.dst \in OutputMarkers(template)

\* C17: a splice of a template that has no or several output-boundary
\* markers, or an edge from an input-boundary marker straight to the
\* output-boundary marker, raises: it returns no result.
C17_MalformedRefused ==
    (pc = "spliced" /\ Malformed(SplicedTemplate)) => last.err # "ok"

\* the template a call spliced, and the modules it treats as boundary markers
C26_Template ==
    IF last.op = "create_pipeline" THEN Plots[last.recipe.plot].subworkflow
    ELSE SplicedTemplate

MarkerKinds ==
    IF last.op = "create_pipeline" THEN {"InputPort"} ELSE {"InputPort", "OutputPort"}

NonMarkers(template) ==
    {m \in DOMAIN template.modules : template.modules[m].desc \notin MarkerKinds}

\* the edges between two modules that are not markers
InnerEdges(template) ==
    {c \in template.connections :
        c.src \in NonMarkers(template) /\ c.dst \in NonMarkers(template)}

\* the edges that leave an input-boundary marker of the given name
MarkerEdges(template, name) ==
    {c \in template.connections :
        /\ template.modules[c.src].desc = "InputPort"
        /\ get_function(template.modules[c.src], "name") = name}

MarkerNames(template) ==
    {get_function(template.modules[c.src], "name") :
        c \in {d \in template.connections : template.modules[d.src].desc = "InputPort"}}

\* the staged additions of modules and of connections, as positions
AddedAt(what) == {i \in StagedOps("add") : generator.operations[i].what = what}

\* the variable A as handed to the operation, and the modules staged for it
SplicedArgument ==
    from_pipeline([vistrail |-> SpliceVistrail(SplicedTemplate), current_version |-> 5],
                  "A").ret

\* the staged modules that are not copies of the template: those of the
\* argument of the operation, or the cell location made for a plot whose
\* template has none
Extras ==
    IF last.op = "create_pipeline"
    THEN {generator.operations[i].id :
             i \in {j \in AddedAt("module") :
                       /\ generator.operations[j].module.desc = "CellLocation"
                       /\ find_modules_by_type(Plots[last.recipe.plot].subworkflow,
                                               "CellLocation") = <<>>}}
    ELSE {SplicedArgument.generator.operations[i].id :
             i \in {j \in DOMAIN SplicedArgument.generator.operations :
                       /\ SplicedArgument.generator.operations[j].op = "add"
                       /\ SplicedArgument.generator.operations[j].what = "module"}}

\* the (module, port) pairs recorded for an input-boundary marker name: the
\* port_map entry of the record, or the places the argument was wired to
Recorded(name) ==
    IF last.op = "create_pipeline"
    THEN IF name \in DOMAIN last.ret.port_map THEN last.ret.port_map[name] ELSE <<>>
    ELSE [i \in 1..Cardinality({j \in AddedAt("connection") :
                                   generator.operations[j].conn.src
                                       = SplicedArgument.output.module}) |->
             LET j == SortedSeq({k \in AddedAt("connection") :
                                    generator.operations[k].conn.src
                                        = SplicedArgument.output.module})[i]
             IN PlotPort(generator.operations[j].conn.dst,
                         generator.operations[j].conn.dport)]

RecordedNames ==
    IF last.op = "create_pipeline" THEN DOMAIN last.ret.port_map
    ELSE {name \in {"input"} : Recorded(name) # <<>>}

\* f maps the modules of the template that are not markers to their copies
IsCopyMap(template, f) ==
    /\ \A m, n \in DOMAIN f : m # n => f[m] # f[n]
    /\ \A m \in DOMAIN f :
           /\ Cardinality({i \in AddedAt("module") : generator.operations[i].id = f[m]}) = 1
           /\ \A i \in AddedAt("module") :
                  generator.operations[i].id = f[m]
                  => generator.operations[i].module = template.modules[m]
    /\ {generator.operations[i].id : i \in AddedAt("module")} \ Range(f) = Extras
    /\ \A c \in InnerEdges(template) :
           Cardinality({i \in AddedAt("connection") :
                           /\ generator.operations[i].conn.src = f[c.src]
                           /\ generator.operations[i].conn.sport = c.sport
                           /\ generator.operations[i].conn.dst = f[c.dst]
                           /\ generator.operations[i].conn.dport = c.dport}) = 1
    /\ Cardinality({i \in AddedAt("connection") :
                       /\ generator.operations[i].conn.src \in Range(f)
                       /\ generator.operations[i].conn.dst \in Range(f)})
           = Cardinality(InnerEdges(template))
    /\ RecordedNames = {name \in MarkerNames(template) :
                           last.op = "create_pipeline" \/ name = "input"}
    /\ \A name \in RecordedNames :
           /\ Len(Recorded(name)) = Cardinality(MarkerEdges(template, name))
           /\ Range(Recorded(name))
                  = {PlotPort(f[c.dst], c.dport) : c \in MarkerEdges(template, name)}

SpliceReturned ==
    /\ pc \in {"spliced", "plotted"}
    /\ last.op \in {"create_pipeline", "apply_operation_subworkflow"}
    /\ last.err = "ok"

\* C26: a splice that returns has staged one copy of every module of the
\* template that is not a boundary marker and of no marker, one connection
\* with both ends remapped for every edge between two such modules and none
\* for an edge that touches a marker, and has recorded for each name of an
\* input-boundary marker the (copy of the destination, port) pairs of the
\* edges that leave the markers of that name, one per edge.
C26_SpliceCopies ==
    SpliceReturned =>
        \E f \in [NonMarkers(C26_Template) ->
                      {generator.operations[i].id : i \in AddedAt("module")}] :
            IsCopyMap(C26_Template, f)

\* an operation whose template has an edge between two modules, an edge from
\* the input marker and an edge to the output marker
C26_Witness ==
    /\ SpliceReturned
    /\ last.op = "apply_operation_subworkflow"
    /\ InnerEdges(SplicedTemplate) # {}
    /\ Cardinality(MarkerEdges(SplicedTemplate, "input")) = 2
    /\ \E c \in SplicedTemplate.connections : c.dst \in OutputMarkers(SplicedTemplate)

\* the cell-location modules and the spreadsheet cells of a graph, by id
LocationsOf(graph) == find_modules_by_type(graph, "CellLocation")
DisplaysOf(graph) == find_modules_by_type(graph, "SpreadsheetCell")

PlotCreated ==
    /\ pc \in {"plotted", "located"}
    /\ last.op = "create_pipeline"
    /\ last.err = "ok"

\* the graph create_pipeline committed for the plot
PlottedGraph == vistrail.versions[last.ret.version].pipeline

\* the module carries the Row and the Column of the target cell
Carries(module, cell_info) ==
    /\ get_function(module, "Row") = str(cell_info.row + 1)
    /\ get_function(module, "Column") = str(cell_info.column + 1)

\* C27: for a plot whose template has a spreadsheet cell, the graph of
\* create_pipeline has a cell-location module that carries Row = row + 1 and
\* Column = column + 1; it is a new module, connected to the first
\* spreadsheet cell, exactly when the template has no cell location; of
\* several cell locations of the template only the first is given the
\* target cell; and get_pipeline_location returns (row, column) when the
\* graph has exactly one cell-location module.
C27_CellLocation ==
    (PlotCreated /\ DisplaysOf(Plots[last.recipe.plot].subworkflow) # <<>>)
    => LET template == Plots[last.recipe.plot].subworkflow
           locations == LocationsOf(PlottedGraph)
           links == {c \in PlottedGraph.connections :
                        /\ c.src \in Range(locations)
                        /\ c.sport = "self" /\ c.dport = "Location"}
       IN /\ locations # <<>>
          /\ Carries(PlottedGraph.modules[locations[1]], last.cell_info)
          /\ Len(DisplaysOf(PlottedGraph)) = Len(DisplaysOf(template))
          /\ IF LocationsOf(template) = <<>>
             THEN /\ Len(locations) = 1
                  /\ Cardinality(links) = 1
                  /\ \A c \in links : c.dst = DisplaysOf(PlottedGraph)[1]
             ELSE /\ Len(locations) = Len(LocationsOf(template))
                  /\ Cardinality(links)
                         = Cardinality({c \in template.connections :
                                           c.src \in Range(LocationsOf(template))})
                  /\ \A i \in 2..Len(locations) :
                         PlottedGraph.modules[locations[i]]
                             = template.modules[LocationsOf(template)[i]]
          /\ (pc = "located" /\ Len(locations) = 1)
                 => /\ last.location.err = "ok"
                    /\ last.location.ret = <<last.cell_info.row, last.cell_info.column>>

\* the location was read back from the graph of a plot whose template has
\* two spreadsheet cells and no cell location
C27_Witness ==
    /\ PlotCreated
    /\ pc = "located"
    /\ Len(DisplaysOf(Plots[last.recipe.plot].subworkflow)) = 2
    /\ LocationsOf(Plots[last.recipe.plot].subworkflow) = <<>>
    /\ last.location.err = "ok"
    /\ last.location.ret = <<last.cell_info.row, last.cell_info.column>>

(***************************************************************************)
(* Properties of delete_linked.                                            *)
(***************************************************************************)
\* the pipeline the generator of the exploration was created on
DLPipeline == vistrail.versions[1].pipeline

\* the pipeline once the staged operations are applied
DLApplied == perform_operations(DLPipeline, generator.operations)

\* connections with an endpoint that is not a module of the pipeline
Dangling(pipeline) ==
    {c \in pipeline.connections :
        c.src \notin DOMAIN pipeline.modules \/ c.dst \notin DOMAIN pipeline.modules}

\* a and b are the two ends of a connection that passes the filter
Linked(pipeline, a, b, connection_filter) ==
    \E c \in pipeline.connections :
        /\ Passes(connection_filter, c)
        /\ (c.src = a /\ c.dst = b) \/ (c.src = b /\ c.dst = a)

RECURSIVE WithinHops(_, _, _, _, _, _)
\* the modules joined to a module of R by at most d more admissible hops
WithinHops(pipeline, seeds, module_filter, connection_filter, d, R) ==
    LET more == {n \in DOMAIN pipeline.modules :
                    /\ n \in seeds \/ Passes(module_filter, n)
                    /\ \E m \in R : Linked(pipeline, m, n, connection_filter)}
    IN IF d = 0 \/ more \subseteq R THEN R
       ELSE WithinHops(pipeline, seeds, module_filter, connection_filter,
                       d - 1, R \cup more)

StagedDeletes(what) ==
    {i \in DOMAIN generator.operations :
        generator.operations[i].op = "delete" /\ generator.operations[i].what = what}

StagedDeletedIds(what) == {generator.operations[i].id : i \in StagedDeletes(what)}

DLCalled == pc \in {"staged", "done", "raised"} /\ last.op = "delete_linked"

\* C7: one seed, always-true filters, unbounded depth: the call returns exactly
\* the modules joined to the seed by connections taken in either direction,
\* and applying the staged deletions leaves no connection with a missing end.
C7_DeletionComplete ==
    (/\ DLCalled
     /\ Cardinality(last.modules) = 1
     /\ last.module_filter = AlwaysTrue
     /\ last.connection_filter = AlwaysTrue
     /\ last.depth = maxint)
    => /\ last.ret = WithinHops(DLPipeline, last.modules, AlwaysTrue, AlwaysTrue,
                                MaxModules, last.modules)
       /\ StagedDeletedIds("module") = last.ret
       /\ Dangling(DLApplied) = {}
       /\ pc = "done" => Dangling(current_pipeline(Controller)) = {}

\* a seed whose component has several modules, but not all, was deleted
C7_Witness ==
    /\ DLCalled /\ pc = "done"
    /\ Cardinality(last.modules) = 1
    /\ last.module_filter = AlwaysTrue
    /\ last.connection_filter = AlwaysTrue
    /\ last.depth = maxint
    /\ Cardinality(last.ret) = 2
    /\ DOMAIN current_pipeline(Controller).modules # {}

\* C8: whatever the seeds, the filters and the depth, every connection of a
\* module staged for deletion is staged for deletion too, also when the
\* connection filter rejects it, and applying leaves no dangling connection.
C8_NoDanglingConnection ==
    DLCalled
    => /\ \A c \in DLPipeline.connections :
              (c.src \in StagedDeletedIds("module") \/ c.dst \in StagedDeletedIds("module"))
              => c.id \in StagedDeletedIds("connection")
       /\ Dangling(DLApplied) = {}
       /\ pc = "done" => Dangling(current_pipeline(Controller)) = {}

\* a connection the filter rejected was deleted with its module
C8_Witness ==
    /\ DLCalled /\ pc = "done"
    /\ \E c \in DLPipeline.connections :
          /\ ~Passes(last.connection_filter, c)
          /\ c.id \in StagedDeletedIds("connection")
          /\ c \notin current_pipeline(Controller).connections

\* C9: with depth d the call removes exactly the seeds and the modules that a
\* path of at most d connections passing the connection filter, through
\* non-seed modules passing the module filter, joins to a seed; depth 0
\* removes the seeds only.
C9_DepthBounded ==
    DLCalled
    => /\ last.ret = WithinHops(DLPipeline, last.modules, last.module_filter,
                                last.connection_filter, last.depth, last.modules)
       /\ StagedDeletedIds("module") = last.ret
       /\ last.depth = 0 => last.ret = last.modules

\* depth 1 stopped a propagation that depth 2 would have continued
C9_Witness ==
    /\ DLCalled
    /\ last.depth = 1
    /\ last.ret # last.modules
    /\ last.ret # WithinHops(DLPipeline, last.modules, last.module_filter,
                             last.connection_filter, 2, last.modules)

\* C10: repeated calls on one generator never stage two deletes of the same
\* module or of the same connection.
C10_NoDoubleDelete ==
    \A i, j \in DOMAIN generator.operations :
        (/\ i # j
         /\ generator.operations[i].op = "delete"
         /\ generator.operations[j].op = "delete"
         /\ generator.operations[i].what = generator.operations[j].what)
        => generator.operations[i].id # generator.operations[j].id

=============================================================================
